---- MODULE Spec2Model ----
(***************************************************************************)
(* A model of GeoEco.R.RWorkerProcess (src/src/GeoEco/R/_RWorkerProcess.py) *)
(* : the Session that spawns an Rscript worker, forwards its output with   *)
(* two reader threads, waits for its readiness line and talks to it over   *)
(* HTTP under one re-entrant lock.                                         *)
(*                                                                         *)
(* Time is abstracted: a wait "times out" nondeterministically whenever    *)
(* the awaited condition does not hold.  Everything the operating system,  *)
(* the worker or a library may answer is a nondeterministic choice.        *)
(***************************************************************************)
EXTENDS Integers, Sequences, FiniteSets, TLC

\* Bounds: how many times Start may get past its "already held" test, in the
\* specification of one calling thread (Spec), of a Session that is stopped
\* and started again (SpecRestart), of two calling threads (SpecThreads) and
\* of a caller that overwrites the secret (SpecAuth).
MaxStart == 1
MaxRestart == 2
MaxStartThreads == 1
MaxStartAuth == 1
\* ... and of readers that meet lines they cannot read (SpecReaders).
MaxStartReaders == 1
\* ... and of a Start whose reader threads may fail to start
\* (SpecThreadFails); no more than the workers of Gens.
MaxStartThreadFails == 2
\* ... and of two threads that call Start and read variables but never call
\* Stop (SpecStartOps); no more than the workers of Gens.
MaxStartOps == 2

Threads == {"t1", "t2"}
Streams == {"stdout", "stderr"}
OpKinds == {"list", "get", "set", "delete", "eval"}
\* the operations the threads of SpecThreads call
ThreadKinds == {"get", "eval"}
Tokens == {"secret", "foo"}
None == 0
Gens ==
    1 .. (MaxStart + MaxRestart + MaxStartThreads + MaxStartAuth
            + MaxStartReaders)

\* The two lines _LogStream treats as signals (compared with startswith).
ReadyLine == "Running plumber API at"
InstallingLine == "INSTALLING_R_PACKAGES"
\* A line whose bytes are not UTF-8: line.decode('utf-8') raises on it.
UndecodableLine == "<not UTF-8>"

VARIABLES
    WorkerProcess,      \* self._WorkerProcess: None, or the worker held
    Session,            \* self._Session: None, or the requests.Session held
    openSessions,       \* the requests.Session objects opened and not closed
    Port,               \* self._Port
    AuthenticationToken,\* self._AuthenticationToken
    lockOwner,          \* self._Lock (threading.RLock): owner, "none" if free
    lockDepth,          \*   and its recursion level
    WorkerProcessIsReady,               \* threading.Event
    WorkerProcessIsInstallingRPackages, \* threading.Event
    pc,                 \* where each calling thread is
    cur,                \* what each thread's call in progress has done so far
    done,               \* the call that ended last and what it did, until
                        \*   another call begins
    nStart,             \* Starts that got past the "already held" test
    phase,              \* each worker process: none/init/installing/...
    pipe,               \* each worker's stdout / stderr: lines not yet read
    args,               \* each worker's command line: its port and secret
    reader,             \* each _LogStream thread: none/running/done
    readySeen,          \* workers whose readiness line a reader has seen
    input,              \* the arguments of a function of the module that is
                        \*   studied on its own (response handling), and
    output              \*   what it returned or raised

vars == <<WorkerProcess, Session, openSessions, Port, AuthenticationToken,
          lockOwner, lockDepth, WorkerProcessIsReady, WorkerProcessIsInstallingRPackages,
          pc, cur, done, nStart, phase, pipe, args, reader, readySeen,
          input, output>>

sessionVars ==
    <<WorkerProcess, Session, openSessions, Port, AuthenticationToken>>
eventVars == <<WorkerProcessIsReady, WorkerProcessIsInstallingRPackages>>
lockVars == <<lockOwner, lockDepth>>
callVars == <<pc, cur, done>>
workerVars == <<phase, pipe, args>>
pureVars == <<input, output>>

\* A call that has not recorded anything yet.
NoCall ==
    [op |-> "none", res |-> "none", held |-> FALSE, ready |-> FALSE,
     spawned |-> None, retried |-> FALSE, poll |-> "none", req |-> "none",
     starting |-> FALSE, log |-> <<>>]

NewCall(op) == [NoCall EXCEPT !.op = op, !.res = "pending"]

NoArgs == [port |-> None, token |-> "none"]

Running(g) == phase[g] \in {"init", "installing", "listening"}

\* The port Start hands to worker g.  With no requested port the operating
\* system picks a free one, so no two live workers share a port; the model
\* names the port after the worker.
EphemeralPort(g) == g

\* self._RequestedPort (line 110): the port argument of the constructor,
\* None when the caller gave none.
RequestedPort == IF DOMAIN input = {} THEN None ELSE input.port

\* lines 168-175: the port Start hands to worker g
ChosenPort(g) ==
    IF RequestedPort = None THEN EphemeralPort(g) ELSE RequestedPort

\* No other worker listens on the port worker g was told to use.
PortFree(g) ==
    \A h \in Gens \ {g} : ~(phase[h] = "listening" /\ args[h].port = args[g].port)

\* The worker an HTTP request to 127.0.0.1:port reaches, None if nothing
\* listens there.
Listener(port) ==
    IF \E g \in Gens : phase[g] = "listening" /\ args[g].port = port
    THEN CHOOSE g \in Gens : phase[g] = "listening" /\ args[g].port = port
    ELSE None

(***************************************************************************)
(* __init__ (lines 102-125): nothing is spawned, nothing is opened.        *)
(***************************************************************************)
InitSession ==
    /\ WorkerProcess = None
    /\ Session = None
    /\ openSessions = {}
    /\ Port = None
    /\ AuthenticationToken = "secret"
    /\ lockOwner = "none"
    /\ lockDepth = 0
    /\ WorkerProcessIsReady = FALSE
    /\ WorkerProcessIsInstallingRPackages = FALSE
    /\ pc = [t \in Threads |-> "idle"]
    /\ cur = [t \in Threads |-> NoCall]
    /\ done = NoCall
    /\ nStart = 0
    /\ phase = [g \in Gens |-> "none"]
    /\ pipe = [g \in Gens |-> [s \in Streams |-> <<>>]]
    /\ args = [g \in Gens |-> NoArgs]
    /\ reader = [g \in Gens |-> [s \in Streams |-> "none"]]
    /\ readySeen = {}

NoInput == <<>>
NoOutput == [kind |-> "none"]

Init == InitSession /\ input = NoInput /\ output = NoOutput

\* Another Session's worker, which this Session never spawns: it was started
\* with the port SharedPort and with that Session's own secret (line 125).
OtherWorker ==
    MaxStart + MaxRestart + MaxStartThreads + MaxStartAuth + MaxStartReaders
SharedPort == EphemeralPort(OtherWorker)

\* __init__ (lines 102-125) with port=SharedPort, while the other Session's
\* worker is listening on that port.
InitSamePort ==
    /\ WorkerProcess = None
    /\ Session = None
    /\ openSessions = {}
    /\ Port = None
    /\ AuthenticationToken = "secret"
    /\ lockOwner = "none"
    /\ lockDepth = 0
    /\ WorkerProcessIsReady = FALSE
    /\ WorkerProcessIsInstallingRPackages = FALSE
    /\ pc = [t \in Threads |-> "idle"]
    /\ cur = [t \in Threads |-> NoCall]
    /\ done = NoCall
    /\ nStart = 0
    /\ phase = [g \in Gens |-> IF g = OtherWorker THEN "listening" ELSE "none"]
    /\ pipe = [g \in Gens |-> [s \in Streams |-> <<>>]]
    /\ args = [g \in Gens |-> IF g = OtherWorker
                                THEN [port |-> SharedPort, token |-> "other"]
                                ELSE NoArgs]
    /\ reader = [g \in Gens |-> [s \in Streams |-> "none"]]
    /\ readySeen = {}
    /\ input = [port |-> SharedPort]
    /\ output = NoOutput

(***************************************************************************)
(* The worker process (Rscript running RunPlumber.R): it may announce that *)
(* it is installing packages, then announces on standard output that       *)
(* plumber is listening, and may exit at any moment (on its own, or killed *)
(* from outside).                                                          *)
(***************************************************************************)
WorkerInstalling(g, s) ==
    /\ phase[g] = "init"
    /\ phase' = [phase EXCEPT ![g] = "installing"]
    /\ pipe' = [pipe EXCEPT ![g][s] = Append(@, InstallingLine)]
    /\ UNCHANGED <<sessionVars, lockVars, eventVars, callVars, nStart, args,
                   reader, readySeen>>

    /\ UNCHANGED pureVars
WorkerListening(g, s) ==
    /\ phase[g] \in {"init", "installing"}
    /\ PortFree(g)
    /\ phase' = [phase EXCEPT ![g] = "listening"]
    /\ pipe' = [pipe EXCEPT ![g][s] = Append(@, ReadyLine)]
    /\ UNCHANGED <<sessionVars, lockVars, eventVars, callVars, nStart, args,
                   reader, readySeen>>

    /\ UNCHANGED pureVars
\* The worker writes a line that is not UTF-8 (a message in the encoding of
\* its locale), at most one per reader.
WorkerWritesUndecodable(g, s) ==
    /\ Running(g)
    /\ reader[g][s] # "done"
    /\ \A i \in 1 .. Len(pipe[g][s]) : pipe[g][s][i] # UndecodableLine
    /\ pipe' = [pipe EXCEPT ![g][s] = Append(@, UndecodableLine)]
    /\ UNCHANGED <<sessionVars, lockVars, eventVars, callVars, nStart, phase,
                   args, reader, readySeen>>

    /\ UNCHANGED pureVars
WorkerExit(g) ==
    /\ Running(g)
    /\ phase' = [phase EXCEPT ![g] = "exited"]
    /\ UNCHANGED <<sessionVars, lockVars, eventVars, callVars, nStart, pipe,
                   args, reader, readySeen>>

    /\ UNCHANGED pureVars
(***************************************************************************)
(* _LogStream (lines 206-234), one thread per stream of a worker.          *)
(***************************************************************************)
\* Mutant: a reader takes the Session lock to handle a line.
LogStreamLineUnderLock(g, s) ==
    /\ lockOwner = "none"
    /\ reader[g][s] = "running"
    /\ pipe[g][s] # <<>>
    /\ Head(pipe[g][s]) # UndecodableLine
    /\ LET line == Head(pipe[g][s]) IN
        /\ pipe' = [pipe EXCEPT ![g][s] = Tail(@)]
        /\ IF line = ReadyLine
           THEN /\ WorkerProcessIsInstallingRPackages' = FALSE
                /\ WorkerProcessIsReady' = TRUE
                /\ readySeen' = readySeen \cup {g}
           ELSE IF line = InstallingLine
           THEN /\ WorkerProcessIsInstallingRPackages' = TRUE
                /\ UNCHANGED <<WorkerProcessIsReady, readySeen>>
           ELSE UNCHANGED <<eventVars, readySeen>>
    /\ UNCHANGED <<sessionVars, lockVars, callVars, nStart, phase, args,
                   reader>>
    /\ UNCHANGED pureVars

\* lines 209-221: one line read and classified
LogStreamLine(g, s) ==
    /\ reader[g][s] = "running"
    /\ pipe[g][s] # <<>>
    /\ Head(pipe[g][s]) # UndecodableLine
    /\ LET line == Head(pipe[g][s]) IN
        /\ pipe' = [pipe EXCEPT ![g][s] = Tail(@)]
        /\ IF line = ReadyLine
           THEN /\ WorkerProcessIsInstallingRPackages' = FALSE
                /\ WorkerProcessIsReady' = TRUE
                /\ readySeen' = readySeen \cup {g}
           ELSE IF line = InstallingLine
           THEN /\ WorkerProcessIsInstallingRPackages' = TRUE
                /\ UNCHANGED <<WorkerProcessIsReady, readySeen>>
           ELSE UNCHANGED <<eventVars, readySeen>>
    /\ UNCHANGED <<sessionVars, lockVars, callVars, nStart, phase, args,
                   reader>>

    /\ UNCHANGED pureVars
\* lines 225-234: readline returned b'' (the worker exited and everything it
\* wrote has been read): close the stream, clear the installing flag, exit
LogStreamEnd(g, s) ==
    /\ reader[g][s] = "running"
    /\ pipe[g][s] = <<>>
    /\ phase[g] = "exited"
    /\ reader' = [reader EXCEPT ![g][s] = "done"]
    /\ WorkerProcessIsInstallingRPackages' = FALSE
    /\ UNCHANGED <<sessionVars, lockVars, WorkerProcessIsReady, callVars,
                   nStart, workerVars, readySeen>>

    /\ UNCHANGED pureVars
\* lines 210, 222-234: decoding the line raises; the handler of line 222
\* catches it, and the loop is left: close the stream, clear the installing
\* flag, exit
LogStreamRaises(g, s) ==
    /\ reader[g][s] = "running"
    /\ pipe[g][s] # <<>>
    /\ Head(pipe[g][s]) = UndecodableLine
    /\ pipe' = [pipe EXCEPT ![g][s] = Tail(@)]
    /\ reader' = [reader EXCEPT ![g][s] = "done"]
    /\ WorkerProcessIsInstallingRPackages' = FALSE
    /\ UNCHANGED <<sessionVars, lockVars, WorkerProcessIsReady, callVars,
                   nStart, phase, args, readySeen>>

    /\ UNCHANGED pureVars
(***************************************************************************)
(* Leaving a call.                                                         *)
(***************************************************************************)
\* The call of thread t ends, by a return or by an exception that leaves
\* every "with self._Lock" block of the thread; rec is what it did.
Finish(t, rec) ==
    /\ pc' = [pc EXCEPT ![t] = "idle"]
    /\ cur' = [cur EXCEPT ![t] = NoCall]
    /\ done' = rec
    /\ lockOwner' = IF lockOwner = t THEN "none" ELSE lockOwner
    /\ lockDepth' = IF lockOwner = t THEN 0 ELSE lockDepth

Raise(t, err) == Finish(t, [cur[t] EXCEPT !.res = err])

\* An operation as it would be if it sent its request as soon as its Start
\* returned.
StartReturnSkipsPoll(t) ==
    LET rec == [cur[t] EXCEPT !.held = (WorkerProcess # None),
                              !.ready = (WorkerProcess \in readySeen)] IN
    IF cur[t].op = "Start"
    THEN Finish(t, [rec EXCEPT !.res = "ok"])
    ELSE /\ pc' = [pc EXCEPT ![t] = "op_send"]
         /\ cur' = [cur EXCEPT ![t] = rec]
         /\ UNCHANGED <<done, lockVars>>

\* Start returns normally from its readiness loop (lines 306-315): to the
\* caller, or into the operation that called it (which holds the lock).
StartReturn(t) ==
    LET rec == [cur[t] EXCEPT !.held = (WorkerProcess # None),
                              !.ready = (WorkerProcess \in readySeen)] IN
    IF cur[t].op = "Start"
    THEN Finish(t, [rec EXCEPT !.res = "ok"])
    ELSE /\ pc' = [pc EXCEPT ![t] = "op_poll"]
         /\ cur' = [cur EXCEPT ![t] = rec]
         /\ UNCHANGED <<done, lockVars>>

(***************************************************************************)
(* Start (lines 127-315).                                                  *)
(***************************************************************************)
\* lines 130-132: Start finds a process held and returns at once
StartHeld(t, op) ==
    LET rec == [NewCall(op) EXCEPT !.held = TRUE,
                                   !.ready = (WorkerProcess \in readySeen)] IN
    /\ IF op = "Start"
       THEN /\ done' = [rec EXCEPT !.res = "ok"]
            /\ UNCHANGED <<pc, cur, lockVars>>
       ELSE /\ pc' = [pc EXCEPT ![t] = "op_poll"]
            /\ cur' = [cur EXCEPT ![t] = rec]
            /\ lockOwner' = t
            /\ lockDepth' = 1
            /\ done' = NoCall
    /\ UNCHANGED <<sessionVars, eventVars, nStart, workerVars, reader,
                   readySeen>>

\* Start as it would be without the test of lines 131-132.
StartEnterWithoutTest(t, op, cap) ==
    /\ nStart < cap + 1
    /\ nStart' = nStart + 1
    /\ Session' = nStart + 1
    /\ openSessions' = openSessions \cup {nStart + 1}
    /\ pc' = [pc EXCEPT ![t] = "start_spawn"]
    /\ cur' = [cur EXCEPT ![t] = NewCall(op)]
    /\ lockOwner' = t
    /\ lockDepth' = IF op = "Start" THEN 1 ELSE 2
    /\ done' = NoCall
    /\ UNCHANGED <<WorkerProcess, Port, AuthenticationToken, eventVars,
                   workerVars, reader, readySeen>>

\* lines 130-147: take the lock; return at once when a process is held,
\* otherwise open a requests.Session.  op is the call being made: "Start", or
\* the operation that calls Start while holding the lock itself.  cap bounds
\* the model: no further worker is started once cap Starts got this far.
StartEnter(t, op, cap) ==
    IF WorkerProcess # None
    THEN StartHeld(t, op)
    ELSE /\ nStart < cap
         /\ nStart' = nStart + 1
         /\ Session' = nStart + 1
         /\ openSessions' = openSessions \cup {nStart + 1}
         /\ pc' = [pc EXCEPT ![t] = "start_spawn"]
         /\ cur' = [cur EXCEPT ![t] = NewCall(op)]
         /\ lockOwner' = t
         /\ lockDepth' = IF op = "Start" THEN 1 ELSE 2
         /\ done' = NoCall
         /\ UNCHANGED <<WorkerProcess, Port, AuthenticationToken, eventVars,
                        workerVars, reader, readySeen>>

\* lines 152-159 raise: Rscript (or libsodium) not found, or the platform
\* is not supported; lines 286-292 close the Session and re-raise
StartLocateFails(t) ==
    /\ pc[t] = "start_spawn"
    /\ openSessions' = openSessions \ {Session}
    /\ Session' = None
    /\ Raise(t, "NotInstalled")
    /\ UNCHANGED <<WorkerProcess, Port, AuthenticationToken, eventVars, nStart,
                   workerVars, reader, readySeen>>

    /\ UNCHANGED pureVars
\* lines 168-197, subprocess.Popen raises (lines 523-531 / 598-606)
StartPopenFails(t) ==
    /\ pc[t] = "start_spawn"
    /\ Port' = ChosenPort(nStart)
    /\ openSessions' = openSessions \ {Session}
    /\ Session' = None
    /\ Raise(t, "SpawnFailed")
    /\ UNCHANGED <<WorkerProcess, AuthenticationToken, eventVars, nStart,
                   workerVars, reader, readySeen>>

    /\ UNCHANGED pureVars
\* win32 only, lines 524-540: Popen succeeded and set self._WorkerProcess,
\* then AssignProcessToJobObject failed; lines 286-292 close the Session
StartAssignJobFails(t) ==
    /\ pc[t] = "start_spawn"
    /\ Port' = ChosenPort(nStart)
    /\ WorkerProcess' = nStart
    /\ phase' = [phase EXCEPT ![nStart] = "init"]
    /\ args' = [args EXCEPT ![nStart] = [port |-> ChosenPort(nStart),
                                         token |-> AuthenticationToken]]
    /\ openSessions' = openSessions \ {Session}
    /\ Session' = None
    /\ Finish(t, [cur[t] EXCEPT !.res = "SpawnFailed", !.spawned = nStart])
    /\ UNCHANGED <<AuthenticationToken, eventVars, nStart, pipe, reader,
                   readySeen>>

    /\ UNCHANGED pureVars
\* Mutant: Start draws a new secret for the worker it spawns.
StartSpawnRegeneratesSecret(t) ==
    LET fresh == IF AuthenticationToken = "secret" THEN "foo" ELSE "secret" IN
    /\ pc[t] = "start_spawn"
    /\ Port' = ChosenPort(nStart)
    /\ WorkerProcess' = nStart
    /\ AuthenticationToken' = fresh
    /\ phase' = [phase EXCEPT ![nStart] = "init"]
    /\ args' = [args EXCEPT ![nStart] = [port |-> ChosenPort(nStart),
                                         token |-> fresh]]
    /\ pc' = [pc EXCEPT ![t] = "start_stdout"]
    /\ cur' = [cur EXCEPT ![t].spawned = nStart]
    /\ UNCHANGED <<Session, openSessions, lockVars, eventVars, done, nStart,
                   pipe, reader, readySeen>>
    /\ UNCHANGED pureVars

\* lines 168-197: the port is chosen and the worker is spawned
StartSpawn(t) ==
    /\ pc[t] = "start_spawn"
    /\ Port' = ChosenPort(nStart)
    /\ WorkerProcess' = nStart
    /\ phase' = [phase EXCEPT ![nStart] = "init"]
    /\ args' = [args EXCEPT ![nStart] = [port |-> ChosenPort(nStart),
                                         token |-> AuthenticationToken]]
    /\ pc' = [pc EXCEPT ![t] = "start_stdout"]
    /\ cur' = [cur EXCEPT ![t].spawned = nStart]
    /\ UNCHANGED <<Session, openSessions, AuthenticationToken, lockVars,
                   eventVars, done, nStart, pipe, reader, readySeen>>

    /\ UNCHANGED pureVars
\* Mutant: Start goes on without starting the stdout reader thread.
StartStdoutThreadNotStarted(t) ==
    /\ pc[t] = "start_stdout"
    /\ pc' = [pc EXCEPT ![t] = "start_stderr"]
    /\ UNCHANGED <<sessionVars, lockVars, eventVars, cur, done, nStart,
                   workerVars, reader, readySeen>>
    /\ UNCHANGED pureVars

\* lines 238-245: the stdout reader thread is started
StartStdoutThread(t) ==
    /\ pc[t] = "start_stdout"
    /\ reader' = [reader EXCEPT ![WorkerProcess]["stdout"] = "running"]
    /\ pc' = [pc EXCEPT ![t] = "start_stderr"]
    /\ UNCHANGED <<sessionVars, lockVars, eventVars, cur, done, nStart,
                   workerVars, readySeen>>

    /\ UNCHANGED pureVars
\* lines 247-254: the stderr reader thread is started; the "with self._Lock"
\* block of Start ends
StartStderrThread(t) ==
    /\ pc[t] = "start_stderr"
    /\ reader' = [reader EXCEPT ![WorkerProcess]["stderr"] = "running"]
    /\ pc' = [pc EXCEPT ![t] = "start_wait"]
    /\ lockDepth' = lockDepth - 1
    /\ lockOwner' = IF lockDepth = 1 THEN "none" ELSE lockOwner
    /\ UNCHANGED <<sessionVars, eventVars, cur, done, nStart, workerVars,
                   readySeen>>

    /\ UNCHANGED pureVars
\* The handler of lines 264-281 as its comment describes it: the worker is
\* not stopped, the handle is dropped and the exception re-raised.
StartThreadFailsKeepsWorker(t) ==
    /\ pc[t] \in {"start_stdout", "start_stderr"}
    /\ reader' = IF pc[t] = "start_stderr"
                 THEN [reader EXCEPT ![WorkerProcess]["stdout"] = "running"]
                 ELSE reader
    /\ WorkerProcess' = None
    /\ openSessions' = openSessions \ {Session}
    /\ Session' = None
    /\ Raise(t, "ThreadStartFailed")
    /\ UNCHANGED <<Port, AuthenticationToken, eventVars, nStart, workerVars,
                   readySeen>>
    /\ UNCHANGED pureVars

\* lines 239-243 / 248-252: stdoutThread.start() or stderrThread.start()
\* raises (a stdout thread already started keeps reading); the handler of
\* lines 264-268 calls self.Stop(), which the Stop steps below carry out
\* with the lock still held; StopClear ends the handler.
StartThreadFails(t) ==
    /\ pc[t] \in {"start_stdout", "start_stderr"}
    /\ reader' = IF pc[t] = "start_stderr"
                 THEN [reader EXCEPT ![WorkerProcess]["stdout"] = "running"]
                 ELSE reader
    /\ pc' = [pc EXCEPT ![t] = "stop_post"]
    /\ UNCHANGED <<sessionVars, lockVars, eventVars, cur, done, nStart,
                   workerVars, readySeen>>
    /\ UNCHANGED pureVars

\* line 301: the readiness flag is set, the loop ends and Start returns
StartReady(t) ==
    /\ pc[t] = "start_wait"
    /\ WorkerProcessIsReady
    /\ StartReturn(t)
    /\ UNCHANGED <<sessionVars, eventVars, nStart, workerVars, reader,
                   readySeen>>

    /\ UNCHANGED pureVars
\* line 302: wait(timeout=self._StartupTimeout) returned False
StartWaitTimeout(t) ==
    /\ pc[t] = "start_wait"
    /\ ~WorkerProcessIsReady
    /\ pc' = [pc EXCEPT ![t] = "start_timedout"]
    /\ UNCHANGED <<sessionVars, lockVars, eventVars, cur, done, nStart,
                   workerVars, reader, readySeen>>

    /\ UNCHANGED pureVars
\* The readiness loop as it would be without the test of line 303.
StartCheckIgnoresInstalling(t) ==
    /\ pc[t] = "start_timedout"
    /\ Raise(t, "StartupTimeout")
    /\ UNCHANGED <<sessionVars, eventVars, nStart, workerVars, reader,
                   readySeen>>

    /\ UNCHANGED pureVars
\* lines 303-304: after a timeout, raise unless the installing flag is set
StartCheckInstalling(t) ==
    /\ pc[t] = "start_timedout"
    /\ IF WorkerProcessIsInstallingRPackages
       THEN /\ pc' = [pc EXCEPT ![t] = "start_wait"]
            /\ cur' = [cur EXCEPT ![t].retried = TRUE]
            /\ UNCHANGED <<done, lockVars>>
       ELSE Raise(t, "StartupTimeout")
    /\ UNCHANGED <<sessionVars, eventVars, nStart, workerVars, reader,
                   readySeen>>

    /\ UNCHANGED pureVars
\* A thread calls Start.
CallStart(t, cap) ==
    /\ pc[t] = "idle"
    /\ lockOwner = "none"
    /\ StartEnter(t, "Start", cap)

    /\ UNCHANGED pureVars
(***************************************************************************)
(* _PollWorkerProcess (lines 748-757), called by every operation.          *)
(***************************************************************************)
\* line 752 raises: the handler at line 754 formats its warning with e, a
\* name the bare "except:" never bound, so the handler itself raises
\* NameError and the operation ends with it
PollFails(t) ==
    /\ pc[t] = "op_poll"
    /\ WorkerProcess # None
    /\ Finish(t, [cur[t] EXCEPT !.res = "NameError", !.poll = "failed"])
    /\ UNCHANGED <<sessionVars, eventVars, nStart, workerVars, reader,
                   readySeen>>

    /\ UNCHANGED pureVars
\* The liveness check as it would be if it ignored the exit code.
PollIgnoresExit(t) ==
    /\ pc[t] = "op_poll"
    /\ pc' = [pc EXCEPT ![t] = "op_send"]
    /\ cur' = [cur EXCEPT ![t].poll =
                    IF WorkerProcess = None THEN "none" ELSE "running"]
    /\ UNCHANGED <<done, lockVars, sessionVars, eventVars, nStart, workerVars,
                   reader, readySeen>>

    /\ UNCHANGED pureVars
\* The liveness check as it would be if it dropped the handle of a worker
\* it finds exited.
PollClearsHandle(t) ==
    /\ pc[t] = "op_poll"
    /\ IF WorkerProcess # None /\ phase[WorkerProcess] = "exited"
       THEN /\ Finish(t, [cur[t] EXCEPT !.res = "ProcessExited",
                                        !.poll = "exited"])
            /\ WorkerProcess' = None
       ELSE /\ pc' = [pc EXCEPT ![t] = "op_send"]
            /\ cur' = [cur EXCEPT ![t].poll =
                            IF WorkerProcess = None THEN "none" ELSE "running"]
            /\ UNCHANGED <<done, lockVars, WorkerProcess>>
    /\ UNCHANGED <<Session, openSessions, Port, AuthenticationToken, eventVars,
                   nStart, workerVars, reader, readySeen>>

    /\ UNCHANGED pureVars
\* lines 750-757 when poll() answers: an exit code raises the "exited
\* unexpectedly" RuntimeError, None lets the operation go on
PollWorkerProcess(t) ==
    /\ pc[t] = "op_poll"
    /\ IF WorkerProcess # None /\ phase[WorkerProcess] = "exited"
       THEN Finish(t, [cur[t] EXCEPT !.res = "ProcessExited",
                                     !.poll = "exited"])
       ELSE /\ pc' = [pc EXCEPT ![t] = "op_send"]
            /\ cur' = [cur EXCEPT ![t].poll =
                            IF WorkerProcess = None THEN "none" ELSE "running"]
            /\ UNCHANGED <<done, lockVars>>
    /\ UNCHANGED <<sessionVars, eventVars, nStart, workerVars, reader,
                   readySeen>>

    /\ UNCHANGED pureVars
(***************************************************************************)
(* The operations: _GetVariableNames (__len__, __iter__), __getitem__,     *)
(* __setitem__, __delitem__, Eval (lines 759-771, 815-910).                *)
(***************************************************************************)
\* Mutant: an operation calls Start without waiting for the lock.
CallOpWithoutLock(t, k, cap) ==
    /\ pc[t] = "idle"
    /\ StartEnter(t, k, cap)
    /\ UNCHANGED pureVars

\* "with self._Lock: self.Start()"
CallOp(t, k, cap) ==
    /\ pc[t] = "idle"
    /\ lockOwner = "none"
    /\ StartEnter(t, k, cap)

    /\ UNCHANGED pureVars
\* What the HTTP exchange gives: the answers a listening worker may give,
\* or a connection failure when nothing listens on the port.
Responses(port, token) ==
    IF Listener(port) = None THEN {"TransportError"}
    ELSE IF args[Listener(port)].token # token THEN {"Unauthorized"}
    ELSE {"ok", "WorkerError", "TransportError"}

\* The request as it would be if a failed exchange made the Session drop
\* its worker.
OpSendDropsWorkerOnError(t) ==
    /\ pc[t] = "op_send"
    /\ IF Session = None
       THEN Raise(t, "AttributeError") /\ UNCHANGED <<WorkerProcess, Session>>
       ELSE \E r \in Responses(Port, AuthenticationToken) :
                /\ Finish(t, [cur[t] EXCEPT !.res = r, !.req = cur[t].op,
                               !.starting = (WorkerProcess # None /\
                                             WorkerProcess \notin readySeen)])
                /\ WorkerProcess' = IF r = "ok" THEN WorkerProcess ELSE None
                /\ Session' = IF r = "ok" THEN Session ELSE None
    /\ UNCHANGED <<openSessions, Port, AuthenticationToken, eventVars, nStart,
                   workerVars, reader, readySeen>>

    /\ UNCHANGED pureVars
\* The request as it would be if its header held the secret the worker was
\* started with instead of the stored one.
OpSendSecretOfStart(t) ==
    /\ pc[t] = "op_send"
    /\ IF Session = None
       THEN Raise(t, "AttributeError")
       ELSE \E r \in Responses(Port, args[WorkerProcess].token) :
                Finish(t, [cur[t] EXCEPT !.res = r, !.req = cur[t].op,
                               !.starting = (WorkerProcess # None /\
                                             WorkerProcess \notin readySeen)])
    /\ UNCHANGED <<sessionVars, eventVars, nStart, workerVars, reader,
                   readySeen>>

    /\ UNCHANGED pureVars
\* self._Session.post/put/delete(...) and _ProcessResponse; the "with" block
\* ends.  Without a Session the attribute access on None raises.
OpSend(t) ==
    /\ pc[t] = "op_send"
    /\ IF Session = None
       THEN Raise(t, "AttributeError")
       ELSE \E r \in Responses(Port, AuthenticationToken) :
                Finish(t, [cur[t] EXCEPT !.res = r, !.req = cur[t].op,
                               !.starting = (WorkerProcess # None /\
                                             WorkerProcess \notin readySeen)])
    /\ UNCHANGED <<sessionVars, eventVars, nStart, workerVars, reader,
                   readySeen>>

    /\ UNCHANGED pureVars
(***************************************************************************)
(* Stop (lines 610-662).  cur[t].log records what this Stop went through.  *)
(***************************************************************************)
Logged(t, e) == [cur EXCEPT ![t].log = Append(@, e)]

\* Stop as it would be without the test of lines 612-613.
StopEnterWithoutTest(t) ==
    /\ pc' = [pc EXCEPT ![t] = "stop_post"]
    /\ cur' = [cur EXCEPT ![t] =
                    [NewCall("Stop") EXCEPT !.held = (WorkerProcess # None)]]
    /\ lockOwner' = t
    /\ lockDepth' = 1
    /\ done' = NoCall

\* lines 611-613: take the lock; return at once when no process is held
StopEnter(t) ==
    IF WorkerProcess = None
    THEN /\ done' = [NewCall("Stop") EXCEPT !.res = "ok"]
         /\ UNCHANGED <<pc, cur, lockVars>>
    ELSE /\ pc' = [pc EXCEPT ![t] = "stop_post"]
         /\ cur' = [cur EXCEPT ![t] = [NewCall("Stop") EXCEPT !.held = TRUE]]
         /\ lockOwner' = t
         /\ lockDepth' = 1
         /\ done' = NoCall

\* Stop as it would be if it did not take the lock.
CallStopWithoutLock(t) ==
    /\ pc[t] = "idle"
    /\ StopEnter(t)
    /\ UNCHANGED <<sessionVars, eventVars, nStart, workerVars, reader,
                   readySeen>>

    /\ UNCHANGED pureVars
CallStop(t) ==
    /\ pc[t] = "idle"
    /\ lockOwner = "none"
    /\ StopEnter(t)
    /\ UNCHANGED <<sessionVars, eventVars, nStart, workerVars, reader,
                   readySeen>>

    /\ UNCHANGED pureVars
\* lines 621-629: POST /shutdown, every exception swallowed.  A worker that
\* accepts the request calls quit(): it exits (WorkerExit) before or after
\* the wait below gives up, and the connection is cut before a response
\* arrives.
StopPost(t) ==
    /\ pc[t] = "stop_post"
    /\ pc' = [pc EXCEPT ![t] = "stop_wait"]
    /\ cur' = Logged(t,
            IF Session = None \/ Listener(Port) = None THEN "post_failed"
            ELSE IF args[Listener(Port)].token # AuthenticationToken
                 THEN "post_rejected"
                 ELSE "post_accepted")
    /\ UNCHANGED <<sessionVars, lockVars, eventVars, done, nStart, workerVars,
                   reader, readySeen>>

    /\ UNCHANGED pureVars
\* The wait as it would be if needToKill stayed True after the child exited.
StopWaitAlwaysKills(t) ==
    /\ pc[t] = "stop_wait"
    /\ pc' = [pc EXCEPT ![t] = "stop_kill"]
    /\ cur' = Logged(t, IF phase[WorkerProcess] = "exited"
                        THEN "exited" ELSE "wait_timeout")
    /\ UNCHANGED <<sessionVars, lockVars, eventVars, done, nStart, workerVars,
                   reader, readySeen>>

    /\ UNCHANGED pureVars
\* lines 633-643: self._WorkerProcess.wait(timeout): the child has exited
\* (needToKill = False) or the wait times out
StopWait(t) ==
    /\ pc[t] = "stop_wait"
    /\ IF phase[WorkerProcess] = "exited"
       THEN /\ pc' = [pc EXCEPT ![t] = "stop_clear"]
            /\ cur' = Logged(t, "exited")
       ELSE /\ pc' = [pc EXCEPT ![t] = "stop_kill"]
            /\ cur' = Logged(t, "wait_timeout")
    /\ UNCHANGED <<sessionVars, lockVars, eventVars, done, nStart, workerVars,
                   reader, readySeen>>

    /\ UNCHANGED pureVars
\* lines 639-640: wait raises something else than TimeoutExpired
StopWaitFails(t) ==
    /\ pc[t] = "stop_wait"
    /\ pc' = [pc EXCEPT ![t] = "stop_kill"]
    /\ cur' = Logged(t, "wait_failed")
    /\ UNCHANGED <<sessionVars, lockVars, eventVars, done, nStart, workerVars,
                   reader, readySeen>>

    /\ UNCHANGED pureVars
\* lines 645-651: kill() ends the child
StopKill(t) ==
    /\ pc[t] = "stop_kill"
    /\ pc' = [pc EXCEPT ![t] = "stop_clear"]
    /\ phase' = [phase EXCEPT ![WorkerProcess] = "exited"]
    /\ cur' = Logged(t, "killed")
    /\ UNCHANGED <<sessionVars, lockVars, eventVars, done, nStart, pipe, args,
                   reader, readySeen>>

    /\ UNCHANGED pureVars
\* lines 648-649: kill() raises, the child is left as it is
StopKillFails(t) ==
    /\ pc[t] = "stop_kill"
    /\ pc' = [pc EXCEPT ![t] = "stop_clear"]
    /\ cur' = Logged(t, "kill_failed")
    /\ UNCHANGED <<sessionVars, lockVars, eventVars, done, nStart, workerVars,
                   reader, readySeen>>

    /\ UNCHANGED pureVars
\* The end of Stop as it would be if a failed kill() left the Session as it
\* is.
StopClearUnlessKillFailed(t) ==
    /\ pc[t] = "stop_clear"
    /\ IF cur[t].log[Len(cur[t].log)] = "kill_failed"
       THEN UNCHANGED <<WorkerProcess, Session, openSessions>>
       ELSE /\ WorkerProcess' = None
            /\ openSessions' = openSessions \ {Session}
            /\ Session' = None
    /\ Finish(t, [cur[t] EXCEPT !.res = "ok"])
    /\ UNCHANGED <<Port, AuthenticationToken, eventVars, nStart, workerVars,
                   reader, readySeen>>

    /\ UNCHANGED pureVars
\* lines 653-662: the handle is dropped, the Session closed and dropped (with
\* no Session held, close() raises on None and the exception is swallowed);
\* the "with" block ends and Stop returns.  When it was Start's handler that
\* called Stop (line 267), lines 269-292 follow: nothing is left to close
\* or to drop, and the exception of the thread is re-raised.
StopClear(t) ==
    /\ pc[t] = "stop_clear"
    /\ WorkerProcess' = None
    /\ openSessions' = openSessions \ {Session}
    /\ Session' = None
    /\ Finish(t, [cur[t] EXCEPT !.res = IF cur[t].op = "Stop" THEN "ok"
                                        ELSE "ThreadStartFailed"])
    /\ UNCHANGED <<Port, AuthenticationToken, eventVars, nStart, workerVars,
                   reader, readySeen>>

    /\ UNCHANGED pureVars
(***************************************************************************)
(* The Session as a context manager (lines 664-670).  output holds where   *)
(* the "with" statement is: in its block, in __exit__, or left, with the   *)
(* exception the block ended by, the workers spawned when it ended, and    *)
(* the exception the statement lets through.                               *)
(***************************************************************************)
InBlock ==
    [kind |-> "block", exc |-> "none", spawned |-> 0, propagated |-> "none"]

\* The exceptions a block may end by: the one its last call raised, or one
\* of its own.
BlockExceptions ==
    {"BlockError"} \cup ({done.res} \ {"none", "pending", "ok"})

\* lines 664-665: __enter__ returns self; nothing else happens
Enter ==
    /\ output = NoOutput
    /\ output' = InBlock
    /\ UNCHANGED <<sessionVars, lockVars, eventVars, callVars, nStart,
                   workerVars, reader, readySeen, input>>

\* The block ends, normally (exc = "none") or by an exception, and __exit__
\* is called: lines 667-669 take the lock and call Stop, whose steps follow.
Exit(t, exc) ==
    /\ output.kind = "block"
    /\ pc[t] = "idle"
    /\ lockOwner = "none"
    /\ StopEnter(t)
    /\ output' = [output EXCEPT !.kind = "exit", !.exc = exc,
                                !.spawned = nStart]
    /\ UNCHANGED <<sessionVars, eventVars, nStart, workerVars, reader,
                   readySeen, input>>

\* __exit__ as it would be if it returned True.
ExitReturnsTrue(t) ==
    /\ output.kind = "exit"
    /\ pc[t] = "idle"
    /\ output' = [output EXCEPT !.kind = "left", !.propagated = "none"]
    /\ UNCHANGED <<sessionVars, lockVars, eventVars, callVars, nStart,
                   workerVars, reader, readySeen, input>>

\* line 670: Stop has returned and __exit__ returns False, so the
\* exception of the block, if any, propagates
ExitReturns(t) ==
    /\ output.kind = "exit"
    /\ pc[t] = "idle"
    /\ output' = [output EXCEPT !.kind = "left", !.propagated = output.exc]
    /\ UNCHANGED <<sessionVars, lockVars, eventVars, callVars, nStart,
                   workerVars, reader, readySeen, input>>

\* The steps of the Stop that __exit__ called.
ExitStop(t) ==
    /\ output.kind = "exit"
    /\ \/ StopPost(t)
       \/ StopWait(t)
       \/ StopWaitFails(t)
       \/ StopKill(t)
       \/ StopKillFails(t)
       \/ StopClear(t)

(***************************************************************************)
(* The caller may overwrite the stored secret (the tests do).              *)
(***************************************************************************)
SetAuthenticationToken(v) ==
    /\ v # AuthenticationToken
    /\ AuthenticationToken' = v
    /\ UNCHANGED <<WorkerProcess, Session, openSessions, Port, lockVars,
                   eventVars, callVars, nStart, workerVars, reader, readySeen>>

    /\ UNCHANGED pureVars
(***************************************************************************)
(* The codec: json.dumps with _MongoDateTimeEncoder (lines 41-60) and      *)
(* json.loads with _MongoDateTimeDecoder (lines 63-96).  A value is a      *)
(* record of its type t and its content v.  Python values carry Python's   *)
(* type names and JSON documents JSON's, so that the two conversions are   *)
(* functions between different sets.  A float is held in thousandths, a    *)
(* datetime as the microseconds of its instant since the epoch.            *)
(***************************************************************************)
MaxListLen == 2

PyNone == [t |-> "NoneType", v |-> <<>>]
PyBool(x) == [t |-> "bool", v |-> x]
PyInt(x) == [t |-> "int", v |-> x]
PyFloat(x) == [t |-> "float", v |-> x]
PyStr(x) == [t |-> "str", v |-> x]
PyList(x) == [t |-> "list", v |-> x]
PyTuple(x) == [t |-> "tuple", v |-> x]
PyDict(x) == [t |-> "dict", v |-> x]
PyDatetime(x) == [t |-> "datetime", v |-> x]

JNull == [t |-> "null", v |-> <<>>]
JBool(x) == [t |-> "boolean", v |-> x]
\* a number written without and with a fraction
JInt(x) == [t |-> "integer", v |-> x]
JReal(x) == [t |-> "real", v |-> x]
JStr(x) == [t |-> "string", v |-> x]
JArr(x) == [t |-> "array", v |-> x]
JDict(x) == [t |-> "object", v |-> x]

\* int(x) of a quotient: the fraction is dropped, towards zero
TruncDiv(a, b) == IF a >= 0 THEN a \div b ELSE -((-a) \div b)

\* The instants whose obj.timestamp() * 1000, a product of doubles, is the
\* double just below the whole number of milliseconds:
\* 1.001 * 1000 = 1000.9999999999999.
ProductBelow == {1001000}

\* line 56: millis = int(obj.timestamp() * 1000)
Millis(us) ==
    IF us \in ProductBelow THEN TruncDiv(us, 1000) - 1 ELSE TruncDiv(us, 1000)

RECURSIVE Encode(_)
Encode(x) ==
    CASE x.t = "NoneType" -> JNull
      [] x.t = "bool" -> JBool(x.v)
      [] x.t = "int" -> JInt(x.v)
      [] x.t = "float" -> JReal(x.v)
      [] x.t = "str" -> JStr(x.v)
      [] x.t \in {"list", "tuple"} ->
           JArr([i \in DOMAIN x.v |-> Encode(x.v[i])])
      [] x.t = "dict" -> JDict([k \in DOMAIN x.v |-> Encode(x.v[k])])
      [] x.t = "datetime" -> JDict([k \in {"$date"} |-> JInt(Millis(x.v))])

\* line 80: datetime.datetime.fromtimestamp(obj['$date'] / 1000., tz=...)
\* of an int, a float or, bool being a subclass of int, a bool
FromTimestamp(x) ==
    CASE x.t = "int" -> x.v * 1000
      [] x.t = "float" -> x.v
      [] x.t = "bool" -> IF x.v THEN 1000 ELSE 0

DecodeMongoDates(obj) ==
    IF /\ Cardinality(DOMAIN obj) = 1
       /\ "$date" \in DOMAIN obj
       /\ obj["$date"].t \in {"int", "float", "bool"}
    THEN PyDatetime(FromTimestamp(obj["$date"]))
    ELSE PyDict(obj)

UnboxMongoDates(result) ==
    IF Len(result) = 1 /\ result[1].t = "datetime"
    THEN result[1]
    ELSE PyList(result)

RECURSIVE Decode(_)
Decode(j) ==
    CASE j.t = "null" -> PyNone
      [] j.t = "boolean" -> PyBool(j.v)
      [] j.t = "integer" -> PyInt(j.v)
      [] j.t = "real" -> PyFloat(j.v)
      [] j.t = "string" -> PyStr(j.v)
      [] j.t = "array" -> UnboxMongoDates([i \in DOMAIN j.v |-> Decode(j.v[i])])
      [] j.t = "object" -> DecodeMongoDates([k \in DOMAIN j.v |-> Decode(j.v[k])])

\* Sequences of at most n elements of S
SeqUpTo(S, n) == UNION {[1 .. m -> S] : m \in 0 .. n}

\* Maps whose keys are a non-empty subset of K
MapsOver(K, S) == UNION {[D -> S] : D \in (SUBSET K) \ {{}}}

\* Whole milliseconds: 2 ms, 1 s and 1.001 s after the epoch.
Instants == {2000, 1000000, 1001000}

PyScalars ==
    {PyNone, PyBool(TRUE), PyInt(5), PyFloat(1500), PyStr("a")}
        \cup {PyDatetime(us) : us \in Instants}

PyShortLists == {PyList(q) : q \in SeqUpTo(PyScalars, 1)}

\* The values handed to the round trip: scalars, lists of scalars, lists of
\* one short list, and maps of scalars and short lists.
PyValues ==
    PyScalars
        \cup {PyList(q) : q \in SeqUpTo(PyScalars, MaxListLen)}
        \cup {PyList(<<l>>) : l \in PyShortLists}
        \cup {PyDict(f) : f \in MapsOver({"a", "$date"},
                                          PyScalars \cup PyShortLists)}

JScalars == {JNull, JBool(TRUE), JInt(5), JReal(1500), JStr("a")}

JObjects == {JDict(f) : f \in MapsOver({"a", "$date"}, JScalars)}

JElements == JScalars \cup {JDict([k \in {"$date"} |-> x]) : x \in JScalars}

\* The documents handed to the decoder.
JDocuments ==
    JScalars
        \cup JObjects
        \cup {JArr(q) : q \in SeqUpTo(JElements, MaxListLen)}
        \cup {JArr(<<JArr(<<x>>)>>) : x \in JElements}

\* isinstance(v, (list, tuple)) and len(v) == 1 and
\* isinstance(v[0], datetime.datetime)
IsSingleDatetime(x) ==
    x.t \in {"list", "tuple"} /\ Len(x.v) = 1 /\ x.v[1].t = "datetime"

AtomicMarker == "RWorkerProcess_IsAtomicDatetime"

DatetimeListMarker == "RWorkerProcess_IsDatetimeList"

\* Mutant: only the bare datetime is marked as atomic.
SerializeValueToJSONBareOnly(value) ==
    Encode(PyDict("value" :>
        IF value.t = "datetime"
        THEN PyDict(("value" :> value) @@ (AtomicMarker :> PyBool(TRUE)))
        ELSE IF value.t = "dict" /\ \A k \in DOMAIN value.v :
                    value.v[k].t = "datetime" \/ IsSingleDatetime(value.v[k])
        THEN PyDict((DatetimeListMarker :> PyBool(TRUE)) @@ value.v)
        ELSE value))

\* _SerializeValueToJSON({'value': value}), lines 773-813
SerializeValueToJSON(value) ==
    Encode(PyDict("value" :>
        IF value.t = "datetime"
        THEN PyDict(("value" :> value) @@ (AtomicMarker :> PyBool(TRUE)))
        ELSE IF IsSingleDatetime(value)
        THEN PyDict(("value" :> value) @@ (AtomicMarker :> PyBool(TRUE)))
        ELSE IF value.t = "dict" /\ \A k \in DOMAIN value.v :
                    value.v[k].t = "datetime" \/ IsSingleDatetime(value.v[k])
        THEN PyDict((DatetimeListMarker :> PyBool(TRUE)) @@ value.v)
        ELSE value))

\* The values given to __setitem__ for the JSON channel: those of the round
\* trip, the empty map and the tuples of one scalar.
SetValues ==
    PyValues \cup {PyDict(<<>>)} \cup {PyTuple(<<x>>) : x \in PyScalars}

InitSerialize ==
    /\ InitSession
    /\ input \in SetValues
    /\ output = NoOutput

\* data=self._SerializeValueToJSON({'value': value}), line 872
ApplySerialize ==
    /\ output = NoOutput
    /\ output' = [kind |-> "return", value |-> SerializeValueToJSON(input)]
    /\ UNCHANGED <<sessionVars, lockVars, eventVars, callVars, nStart,
                   workerVars, reader, readySeen, input>>

InitRoundTrip ==
    /\ InitSession
    /\ input \in PyValues
    /\ output = NoOutput

\* json.loads(json.dumps(v, cls=_MongoDateTimeEncoder),
\*            cls=_MongoDateTimeDecoder)
ApplyRoundTrip ==
    /\ output = NoOutput
    /\ output' = [kind |-> "return", value |-> Decode(Encode(input))]
    /\ UNCHANGED <<sessionVars, lockVars, eventVars, callVars, nStart,
                   workerVars, reader, readySeen, input>>

InitDecode ==
    /\ InitSession
    /\ input \in JDocuments
    /\ output = NoOutput

\* json.loads(text, cls=_MongoDateTimeDecoder)
ApplyDecode ==
    /\ output = NoOutput
    /\ output' = [kind |-> "return", value |-> Decode(input)]
    /\ UNCHANGED <<sessionVars, lockVars, eventVars, callVars, nStart,
                   workerVars, reader, readySeen, input>>

(***************************************************************************)
(* _ProcessResponse (lines 683-746), on its own.  A response is its status *)
(* code, its Content-Type header, and its body: a JSON document, a feather *)
(* file, or neither.                                                       *)
(***************************************************************************)
\* resp.json() and json.loads raise
NotJSON == [t |-> "not JSON", v |-> <<>>]
\* a feather file, which is not JSON either
Feather == [t |-> "feather", v |-> <<>>]

Statuses == {200, 401, 404, 500}

Bodies ==
    {NotJSON, Feather,
     JStr("boom"),
     JArr(<<JStr("boom")>>),
     JDict([error |-> JStr("boom")]),
     JDict([message |-> JStr("boom")]),
     JDict([message |-> JStr("boom"), cst |-> JArr(<<JStr("f()")>>)]),
     JDict([message |-> JArr(<<JStr("boom")>>)])}

NoContentType == "<no header>"

ContentTypes ==
    {NoContentType, "application/json", "application/vnd.apache.arrow.file",
     "application/x-feather", "text/html", "application/json; charset=utf-8"}

\* Mutant: every operation parses the body.
ParseReturnValueAlways(op) == TRUE

\* The operations that pass parseReturnValue=True (lines 771, 836, 910);
\* __setitem__ and __delitem__ do not (lines 877, 894).
ParseReturnValue(op) == op \in {"list", "get", "eval"}

ResponseInputs ==
    [op : OpKinds, status : Statuses, body : Bodies, ctype : ContentTypes]

Raised(what, detail) == [kind |-> "raise", what |-> what, detail |-> detail]
Returned(what, value) == [kind |-> "return", what |-> what, value |-> value]

\* Mutant: any "message" field will do, whatever its type.
IsWorkerErrorAnyMessage(r) ==
    /\ r.status = 500
    /\ r.body.t = "object"
    /\ "message" \in DOMAIN r.body.v

\* lines 689-701: the 500 that carries a message from R
IsWorkerError(r) ==
    /\ r.status = 500
    /\ r.body.t = "object"
    /\ "message" \in DOMAIN r.body.v
    /\ r.body.v["message"].t = "string"

ProcessResponse(r, parseReturnValue) ==
    IF IsWorkerError(r)
    THEN Raised("From R", r.body.v["message"].v)
    ELSE IF r.status # 200
    THEN Raised("HTTP status", r.status)
    ELSE IF ~parseReturnValue
    THEN Returned("None", <<>>)
    ELSE IF r.ctype = NoContentType
    THEN Returned("None", <<>>)
    ELSE IF r.ctype = "application/json"
    THEN IF r.body.t \notin {"not JSON", "feather"}
         THEN Returned("JSON", Decode(r.body))
         ELSE Raised("JSON parser", <<>>)
    ELSE IF r.ctype \in {"application/vnd.apache.arrow.file",
                         "application/x-feather"}
    THEN IF r.body.t = "feather" THEN Returned("table", r.body)
         ELSE Raised("feather parser", <<>>)
    ELSE Raised("unknown Content-Type", r.ctype)

InitResponse ==
    /\ InitSession
    /\ input \in ResponseInputs
    /\ output = NoOutput

\* self._ProcessResponse(resp, parseReturnValue) at the end of an operation
ApplyProcessResponse ==
    /\ output = NoOutput
    /\ output' = ProcessResponse(input, ParseReturnValue(input.op))
    /\ UNCHANGED <<sessionVars, lockVars, eventVars, callVars, nStart,
                   workerVars, reader, readySeen, input>>

(***************************************************************************)
(* The worker's variable store, seen from the wire.  The worker's handler  *)
(* script is not part of the Python sources: by the comments of lines      *)
(* 775-801 and 83-90 and the codec section of the specification it strips  *)
(* the markers of _SerializeValueToJSON, and its replies collapse a        *)
(* one-element array to the element but leave a single date in an array.   *)
(***************************************************************************)
IsMongoDate(j) ==
    /\ j.t = "object"
    /\ DOMAIN j.v = {"$date"}
    /\ j.v["$date"].t \in {"integer", "real"}

\* All of f but the key k
Without(f, k) == [x \in (DOMAIN f) \ {k} |-> f[x]]

\* The value the worker stores for the body of a PUT to /set
WorkerSet(body) ==
    LET x == body.v["value"]
    IN  IF x.t = "object" /\ AtomicMarker \in DOMAIN x.v
        THEN LET inner == x.v["value"]
             IN  IF inner.t = "array" /\ Len(inner.v) = 1 THEN inner.v[1]
                 ELSE inner
        ELSE IF x.t = "object" /\ DatetimeListMarker \in DOMAIN x.v
        THEN JDict(Without(x.v, DatetimeListMarker))
        ELSE x

\* The body of the reply to a POST to /get of a stored value
WorkerGet(stored) ==
    IF IsMongoDate(stored) THEN JArr(<<stored>>)
    ELSE IF stored.t = "array" /\ Len(stored.v) = 1 THEN stored.v[1]
    ELSE stored

\* r[key] after r[key] = value, both answered 200 (lines 836 and 870-877)
SetThenGet(value) ==
    ProcessResponse([op |-> "get", status |-> 200,
                     body |-> WorkerGet(WorkerSet(SerializeValueToJSON(value))),
                     ctype |-> "application/json"], ParseReturnValue("get"))

\* The JSON-compatible values: no datetime in them.
PlainScalars == {PyNone, PyBool(TRUE), PyInt(5), PyFloat(1500), PyStr("a")}

PlainValues ==
    PlainScalars
        \cup {PyList(q) : q \in SeqUpTo(PlainScalars, MaxListLen)}
        \cup {PyList(<<PyList(q)>>) : q \in SeqUpTo(PlainScalars, 1)}
        \cup {PyDict(f) : f \in MapsOver({"a", "$date"}, PlainScalars)}

InitSetGet ==
    /\ InitSession
    /\ input \in [first : PlainValues, second : PlainValues]
    /\ output = NoOutput

\* The worker's variable x: the number of Sets so far and the value stored
Stored(n, x) == [kind |-> "stored", sets |-> n, x |-> x]

\* r['x'] = value, answered 200: the first value, then the second
SetItem ==
    /\ \/ /\ output = NoOutput
          /\ output' = Stored(1, WorkerSet(SerializeValueToJSON(input.first)))
       \/ /\ output.kind = "stored"
          /\ output.sets = 1
          /\ output' = Stored(2, WorkerSet(SerializeValueToJSON(input.second)))
    /\ UNCHANGED <<sessionVars, lockVars, eventVars, callVars, nStart,
                   workerVars, reader, readySeen, input>>

\* r['x'], answered 200 with the stored value as JSON
GetItem ==
    /\ output.kind = "stored"
    /\ LET got == ProcessResponse([op |-> "get", status |-> 200,
                                   body |-> WorkerGet(output.x),
                                   ctype |-> "application/json"],
                                  ParseReturnValue("get"))
       IN  output' = [kind |-> got.kind, sets |-> output.sets,
                      value |-> got.value]
    /\ UNCHANGED <<sessionVars, lockVars, eventVars, callVars, nStart,
                   workerVars, reader, readySeen, input>>

(***************************************************************************)
(* Time zones.  A datetime.datetime is its wall-clock reading, in          *)
(* microseconds since 1970-01-01 00:00:00 on that clock, and its tzinfo.   *)
(* The zones are UTC and a zone ten minutes east of it, an offset that     *)
(* keeps the microsecond counts within the integers of the model.          *)
(***************************************************************************)
NoTZ == "None"

Zones == {"UTC", "UTC+00:10"}

UTCOffset(tz) == IF tz = "UTC" THEN 0 ELSE 600000000

\* lines 53-54: obj.replace(tzinfo=self.default_tzinfo) of a naive datetime
ReplaceTZInfo(obj, default_tzinfo) ==
    IF obj.tzinfo = NoTZ THEN [obj EXCEPT !.tzinfo = default_tzinfo] ELSE obj

\* obj.timestamp() of an aware datetime, in microseconds
Timestamp(obj) == obj.wall - UTCOffset(obj.tzinfo)

\* line 80: datetime.datetime.fromtimestamp(..., tz=self.default_tzinfo)
InZone(instant, default_tzinfo) ==
    [wall |-> instant + UTCOffset(default_tzinfo), tzinfo |-> default_tzinfo]

Walls ==
    {2000, 5000, 1000000, 1001000, 1002000,
     600002000, 600005000, 601000000, 601001000, 601002000}

DatetimeInputs ==
    [obj : [wall : Walls, tzinfo : {NoTZ} \cup Zones], defaultTZ : Zones]

InitDateTime ==
    /\ InitSession
    /\ input \in DatetimeInputs
    /\ output = NoOutput

\* r['x'] = obj; r['x'] on a Session constructed with defaultTZ
SetThenGetDateTime ==
    /\ output = NoOutput
    /\ LET sent == PyDatetime(Timestamp(ReplaceTZInfo(input.obj,
                                                       input.defaultTZ)))
           got == SetThenGet(sent)
       IN  output' = [got EXCEPT !.value = InZone(@.v, input.defaultTZ)]
    /\ UNCHANGED <<sessionVars, lockVars, eventVars, callVars, nStart,
                   workerVars, reader, readySeen, input>>

(***************************************************************************)
(* One self._Session.post/put/delete call, attempt by attempt.  Start      *)
(* mounts the session's http:// adapter with Retry(total=5,                *)
(* backoff_factor=0.5) (lines 135-147): the adapter tries again after a    *)
(* failed connection until the total is used up, and hands back whatever   *)
(* HTTP response it receives, failure statuses included.                   *)
(***************************************************************************)
RetryTotal == 5

RequestInputs == [op : OpKinds]

InitRequest ==
    /\ InitSession
    /\ input \in RequestInputs
    /\ output = NoOutput

Connecting(failed, total) ==
    [kind |-> "connecting", failed |-> failed, answered |-> 0, total |-> total,
     status |-> None]

\* self._Session.post(...), .put(...) or .delete(...) is called
SessionRequest ==
    /\ output = NoOutput
    /\ output' = Connecting(0, RetryTotal)
    /\ UNCHANGED <<sessionVars, lockVars, eventVars, callVars, nStart,
                   workerVars, reader, readySeen, input>>

\* An attempt fails to connect: retried while the total lasts, then raised.
ConnectFails ==
    /\ output.kind = "connecting"
    /\ output' = IF output.total = 0
                 THEN [output EXCEPT !.kind = "raise", !.failed = @ + 1]
                 ELSE Connecting(output.failed + 1, output.total - 1)
    /\ UNCHANGED <<sessionVars, lockVars, eventVars, callVars, nStart,
                   workerVars, reader, readySeen, input>>

\* Mutant: a response with a failure status is retried like a failed
\* connection.
ConnectAnsweredRetriesOnStatus(status) ==
    /\ output.kind = "connecting"
    /\ output' = IF status # 200 /\ output.total > 0
                 THEN [output EXCEPT !.answered = @ + 1, !.total = @ - 1]
                 ELSE [output EXCEPT !.kind = "response", !.answered = @ + 1,
                                     !.status = status]
    /\ UNCHANGED <<sessionVars, lockVars, eventVars, callVars, nStart,
                   workerVars, reader, readySeen, input>>

\* An attempt is answered: the response is returned, whatever its status.
ConnectAnswered(status) ==
    /\ output.kind = "connecting"
    /\ output' = [output EXCEPT !.kind = "response", !.answered = @ + 1,
                                !.status = status]
    /\ UNCHANGED <<sessionVars, lockVars, eventVars, callVars, nStart,
                   workerVars, reader, readySeen, input>>

(***************************************************************************)
(* Locating Rscript (lines 153-158, 317-387, 558-576).  input is what the  *)
(* machine holds: the platform, whether libsodium loads, the rInstallDir   *)
(* argument, the R_HOME variable, the two registry keys and the PATH; a    *)
(* directory either holds the executable ("exe") or does not ("no exe").   *)
(***************************************************************************)
Platforms == {"win32", "linux", "darwin"}
Hives == <<"HKEY_CURRENT_USER", "HKEY_LOCAL_MACHINE">>

LocateInputs ==
    [platform : Platforms, libsodium : BOOLEAN,
     rInstallDir : {"None", "exe", "no exe"},
     R_HOME : {"unset", "blank", "exe", "no exe"},
     HKEY_CURRENT_USER : {"absent", "error", "exe", "no exe"},
     HKEY_LOCAL_MACHINE : {"absent", "error", "exe", "no exe"},
     PATH : BOOLEAN]

InitLocate ==
    /\ InitSession
    /\ input \in LocateInputs
    /\ output = NoOutput

\* lines 349-375: the first of the two keys whose InstallPath holds the
\* executable, "none" when neither does
RegistryProbe(m) ==
    IF m[Hives[1]] = "exe" THEN Hives[1]
    ELSE IF m[Hives[2]] = "exe" THEN Hives[2]
    ELSE "none"

\* Mutant: R_HOME is tried before the directory given by the caller.
LocateRscriptOnWin32EnvFirst(m) ==
    IF ~m.libsodium THEN Raised("SoftwareNotInstalledError", "libsodium")
    ELSE IF m.R_HOME \in {"exe", "no exe"}
    THEN IF m.R_HOME = "exe" THEN Returned("Rscript", "R_HOME")
         ELSE Raised("FileNotFoundError", "R_HOME")
    ELSE IF m.rInstallDir # "None"
    THEN IF m.rInstallDir = "exe" THEN Returned("Rscript", "rInstallDir")
         ELSE Raised("FileNotFoundError", "rInstallDir")
    ELSE IF RegistryProbe(m) # "none" THEN Returned("Rscript", RegistryProbe(m))
    ELSE IF m.PATH THEN Returned("Rscript", "PATH")
    ELSE Raised("SoftwareNotInstalledError", "Rscript")

\* _LocateRscriptOnWin32 (lines 317-387)
LocateRscriptOnWin32(m) ==
    IF ~m.libsodium THEN Raised("SoftwareNotInstalledError", "libsodium")
    ELSE IF m.rInstallDir # "None"
    THEN IF m.rInstallDir = "exe" THEN Returned("Rscript", "rInstallDir")
         ELSE Raised("FileNotFoundError", "rInstallDir")
    ELSE IF m.R_HOME \in {"exe", "no exe"}
    THEN IF m.R_HOME = "exe" THEN Returned("Rscript", "R_HOME")
         ELSE Raised("FileNotFoundError", "R_HOME")
    ELSE IF RegistryProbe(m) # "none" THEN Returned("Rscript", RegistryProbe(m))
    ELSE IF m.PATH THEN Returned("Rscript", "PATH")
    ELSE Raised("SoftwareNotInstalledError", "Rscript")

\* _LocateRscriptOnLinux (lines 558-576)
LocateRscriptOnLinux(m) ==
    IF ~m.libsodium THEN Raised("SoftwareNotInstalledError", "libsodium")
    ELSE IF m.PATH THEN Returned("Rscript", "PATH")
    ELSE Raised("SoftwareNotInstalledError", "Rscript")

\* Start, lines 153-158
LocateRscript ==
    /\ input \in LocateInputs
    /\ output = NoOutput
    /\ output' = IF input.platform = "win32" THEN LocateRscriptOnWin32(input)
                 ELSE IF input.platform = "linux"
                 THEN LocateRscriptOnLinux(input)
                 ELSE Raised("NotImplementedError", input.platform)
    /\ UNCHANGED <<sessionVars, lockVars, eventVars, callVars, nStart,
                   workerVars, reader, readySeen, input>>

(***************************************************************************)
(* _LogStream (lines 206-234) line by line.  A line is the sequence of its *)
(* pieces: the prefixes the loop tests for, other text, white space, bytes *)
(* that are not UTF-8.  input is the stream (its name and the lines the    *)
(* child writes before it closes it), output the reader: how many lines it *)
(* has read, the records it has handed to the logger, whether it has       *)
(* closed its stream, and the step that raised, if one did.                *)
(***************************************************************************)
MaxLines == 2

SwaggerLine == "Running swagger Docs at"
DebugPrefix == "DEBUG:"
Text == "x"
WhiteSpace == " "

Pieces ==
    {ReadyLine, InstallingLine, SwaggerLine, DebugPrefix, Text, WhiteSpace,
     UndecodableLine}

Lines ==
    {<<>>} \cup {<<a>> : a \in Pieces}
           \cup {<<a, b>> : a \in Pieces, b \in {Text, WhiteSpace}}
           \cup {<<a, DebugPrefix>> : a \in {Text, WhiteSpace}}

LogStreamInputs == [stream : Streams, lines : SeqUpTo(Lines, MaxLines)]

InitLogStream ==
    /\ InitSession
    /\ input \in LogStreamInputs
    /\ output = NoOutput

\* line 210: line.decode('utf-8') raises on bytes that are not UTF-8
Decodable(line) == \A i \in 1 .. Len(line) : line[i] # UndecodableLine

\* line 210: str.rstrip()
RECURSIVE RStrip(_)
RStrip(line) ==
    IF line # <<>> /\ line[Len(line)] = WhiteSpace
    THEN RStrip(SubSeq(line, 1, Len(line) - 1))
    ELSE line

\* str.startswith
StartsWith(line, prefix) == line # <<>> /\ line[1] = prefix

\* Mutant: every stream is logged at informational level.
LevelOfStdout(streamName) == "INFO"

\* lines 238 and 247: the level given to the reader of each stream
Level(streamName) == IF streamName = "stdout" THEN "INFO" ELSE "WARNING"

\* Mutant: a line with the debug prefix is not logged.
ClassifyWithoutDebug(line, level) ==
    IF StartsWith(line, ReadyLine) THEN [event |-> "ready", log |-> <<>>]
    ELSE IF StartsWith(line, InstallingLine)
    THEN [event |-> "installing", log |-> <<>>]
    ELSE IF StartsWith(line, SwaggerLine) \/ StartsWith(line, DebugPrefix)
    THEN [event |-> "none", log |-> <<>>]
    ELSE [event |-> "none", log |-> <<[level |-> level, msg |-> line]>>]

\* lines 211-221: what the loop does with a decoded line: the Event it
\* touches and the records it hands to the logger
Classify(line, level) ==
    IF StartsWith(line, ReadyLine) THEN [event |-> "ready", log |-> <<>>]
    ELSE IF StartsWith(line, InstallingLine)
    THEN [event |-> "installing", log |-> <<>>]
    ELSE IF StartsWith(line, SwaggerLine)
    THEN [event |-> "none", log |-> <<>>]
    ELSE IF StartsWith(line, DebugPrefix)
    THEN [event |-> "none",
          log |-> <<[level |-> "DEBUG", msg |-> <<"R:">> \o Tail(line)]>>]
    ELSE [event |-> "none", log |-> <<[level |-> level, msg |-> line]>>]

\* line 207: the thread starts
LogStreamStart ==
    /\ input \in LogStreamInputs
    /\ output = NoOutput
    /\ output' = [kind |-> "reading", n |-> 0, log |-> <<>>,
                  closed |-> FALSE, raised |-> "none"]
    /\ UNCHANGED <<sessionVars, lockVars, eventVars, callVars, nStart,
                   workerVars, reader, readySeen, input>>

\* lines 209-221: a line is read, decoded, stripped and classified
LogStreamReadLine ==
    /\ output.kind = "reading"
    /\ output.n < Len(input.lines)
    /\ Decodable(input.lines[output.n + 1])
    /\ LET c == Classify(RStrip(input.lines[output.n + 1]),
                         Level(input.stream)) IN
        /\ output' = [output EXCEPT !.n = @ + 1, !.log = @ \o c.log]
        /\ WorkerProcessIsReady' = (WorkerProcessIsReady \/ c.event = "ready")
        /\ WorkerProcessIsInstallingRPackages' =
                IF c.event = "ready" THEN FALSE
                ELSE IF c.event = "installing" THEN TRUE
                ELSE WorkerProcessIsInstallingRPackages
    /\ UNCHANGED <<sessionVars, lockVars, callVars, nStart, workerVars,
                   reader, readySeen, input>>

\* Mutant: the loop ends without clearing the installing flag.
LogStreamExitKeepsFlag(n, raised) ==
    /\ output' = [output EXCEPT !.kind = "exited", !.n = n, !.closed = TRUE,
                                !.raised = raised]
    /\ UNCHANGED WorkerProcessIsInstallingRPackages
    /\ UNCHANGED <<sessionVars, lockVars, WorkerProcessIsReady, callVars,
                   nStart, workerVars, reader, readySeen, input>>

\* lines 222-234: the loop is over, by the end of the stream or by an
\* exception, which is caught: the stream is closed, the installing flag
\* cleared, and the thread exits
LogStreamExit(n, raised) ==
    /\ output' = [output EXCEPT !.kind = "exited", !.n = n, !.closed = TRUE,
                                !.raised = raised]
    /\ WorkerProcessIsInstallingRPackages' = FALSE
    /\ UNCHANGED <<sessionVars, lockVars, WorkerProcessIsReady, callVars,
                   nStart, workerVars, reader, readySeen, input>>

\* line 209: readline returns b'', the child has closed the stream
LogStreamEndOfStream ==
    /\ output.kind = "reading"
    /\ output.n = Len(input.lines)
    /\ LogStreamExit(output.n, "none")

\* line 209: readline raises
LogStreamReadRaises ==
    /\ output.kind = "reading"
    /\ LogStreamExit(output.n, "read")

\* line 210: a line is read and decode raises on it
LogStreamDecodeRaises ==
    /\ output.kind = "reading"
    /\ output.n < Len(input.lines)
    /\ ~Decodable(input.lines[output.n + 1])
    /\ LogStreamExit(output.n + 1, "decode")

\* lines 219 and 221: a line is read and logger.log raises on it
LogStreamLogRaises ==
    /\ output.kind = "reading"
    /\ output.n < Len(input.lines)
    /\ Decodable(input.lines[output.n + 1])
    /\ Classify(RStrip(input.lines[output.n + 1]), Level(input.stream)).log
            # <<>>
    /\ LogStreamExit(output.n + 1, "log")

(***************************************************************************)
(* The key of __getitem__, __setitem__ and __delitem__ (lines 821-894):    *)
(* each tests its key first (lines 822-823, 839-840, 880-881), then takes  *)
(* the lock, calls Start, polls, and sends key.strip() as the "name"       *)
(* parameter of its request (lines 831, 859, 870, 888).  A key is a value  *)
(* with its type; the characters of a str are pieces as in _LogStream.     *)
(* input is the call (operation and key); output is the ValueError raised  *)
(* or the parameters of the request.                                       *)
(***************************************************************************)
MaxKeyLen == 3

KeyOps == {"get", "set", "delete"}

Keys ==
    {[t |-> "str", v |-> s] : s \in SeqUpTo({Text, WhiteSpace}, MaxKeyLen)}
    \cup {[t |-> "NoneType", v |-> <<>>], [t |-> "bytes", v |-> <<Text>>]}

KeyInputs == [port : {None}, op : KeyOps, key : Keys]

InitKeys == InitSession /\ input \in KeyInputs /\ output = NoOutput

RECURSIVE LStrip(_)
\* str.lstrip
LStrip(line) ==
    IF line # <<>> /\ line[1] = WhiteSpace THEN LStrip(Tail(line)) ELSE line

\* str.strip
Strip(line) == LStrip(RStrip(line))

\* Mutant: the key is measured without stripping it.
ValidKeyUnstripped(key) == key.t = "str" /\ Len(key.v) > 0

\* lines 822, 839, 880: isinstance(key, str) and len(key.strip()) > 0
ValidKey(key) == key.t = "str" /\ Len(Strip(key.v)) > 0

\* lines 822-823: the key is refused before anything else is done
KeyRejected(t) ==
    /\ pc[t] = "idle"
    /\ output.kind = "none"
    /\ ~ValidKey(input.key)
    /\ output' = Raised("ValueError", "key must be a str with length > 0")
    /\ UNCHANGED <<sessionVars, lockVars, eventVars, callVars, nStart,
                   workerVars, reader, readySeen, input>>

\* lines 824-825: the key passed the test; lock, Start
KeyAccepted(t) == ValidKey(input.key) /\ CallOp(t, input.op, MaxStart)

\* lines 831, 859, 870, 888: params={'name': key.strip()}
KeyParams(t) ==
    /\ pc[t] = "op_send"
    /\ Session # None
    /\ output.kind = "none"
    /\ output' = [kind |-> "params", name |-> Strip(input.key.v)]
    /\ UNCHANGED <<sessionVars, lockVars, eventVars, callVars, nStart,
                   workerVars, reader, readySeen, input>>

\* lines 830-836: the request is sent with these parameters
KeySend(t) == (Session = None \/ output.kind = "params") /\ OpSend(t)

(***************************************************************************)
(* The specifications.                                                     *)
(***************************************************************************)
\* One step of a calling thread among T, which call the operations K.
Call(T, K, cap) ==
    \E t \in T :
        \/ CallStart(t, cap)
        \/ StartLocateFails(t)
        \/ StartPopenFails(t)
        \/ StartAssignJobFails(t)
        \/ StartSpawn(t)
        \/ StartStdoutThread(t)
        \/ StartStderrThread(t)
        \/ StartReady(t)
        \/ StartWaitTimeout(t)
        \/ StartCheckInstalling(t)
        \/ \E k \in K : CallOp(t, k, cap)
        \/ PollFails(t)
        \/ PollWorkerProcess(t)
        \/ OpSend(t)
        \/ CallStop(t)
        \/ StopPost(t)
        \/ StopWait(t)
        \/ StopWaitFails(t)
        \/ StopKill(t)
        \/ StopKillFails(t)
        \/ StopClear(t)

\* One step of a worker process or of a reader thread.  The worker writes its
\* readiness line to standard output, its installing line to a stream of S.
Environment(S) ==
    \E g \in Gens :
        \/ WorkerExit(g)
        \/ WorkerListening(g, "stdout")
        \/ \E s \in S : WorkerInstalling(g, s)
        \/ \E s \in Streams :
            \/ LogStreamLine(g, s)
            \/ LogStreamEnd(g, s)

\* One thread calls.
Next == Call({"t1"}, OpKinds, MaxStart) \/ Environment(Streams)

Spec == Init /\ [][Next]_vars

\* One thread calls; the Session is stopped and started again.
NextRestart == Call({"t1"}, OpKinds, MaxRestart) \/ Environment(Streams)

SpecRestart == Init /\ [][NextRestart]_vars

\* The same, scheduled fairly: a thread in the readiness wait of lines
\* 301-304 goes on (the startup timeout is finite), every reader thread goes
\* on reading (lines 209, 225-234), and every worker sooner or later
\* announces that it listens or exits.
FairStartWait ==
    WF_vars(StartReady("t1") \/ StartWaitTimeout("t1")
            \/ StartCheckInstalling("t1"))

FairReaders ==
    \A g \in Gens, s \in Streams :
        WF_vars(LogStreamLine(g, s) \/ LogStreamEnd(g, s))

FairWorkers ==
    \A g \in Gens : WF_vars(WorkerExit(g) \/ WorkerListening(g, "stdout"))

SpecFair == Spec /\ FairStartWait /\ FairReaders /\ FairWorkers

\* Two threads call at once.
NextThreads ==
    Call(Threads, ThreadKinds, MaxStartThreads) \/ Environment({"stdout"})

SpecThreads == Init /\ [][NextThreads]_vars

\* One thread calls, and the stored secret is overwritten now and then.
NextAuth ==
    \/ Call({"t1"}, OpKinds, MaxStartAuth)
    \/ Environment({"stdout"})
    \/ \E v \in Tokens : SetAuthenticationToken(v)

SpecAuth == Init /\ [][NextAuth]_vars

\* One thread calls, and the worker also writes lines a reader cannot decode.
NextReaders ==
    \/ Call({"t1"}, {"get"}, MaxStartReaders)
    \/ Environment(Streams)
    \/ \E g \in Gens, s \in Streams :
        \/ WorkerWritesUndecodable(g, s)
        \/ LogStreamRaises(g, s)

SpecReaders == Init /\ [][NextReaders]_vars

\* One thread calls on a Session whose requested port another Session's
\* worker listens on, until that worker exits.
NextSamePort == Call({"t1"}, {"get"}, MaxStart) \/ Environment(Streams)

SpecSamePort == InitSamePort /\ [][NextSamePort]_vars

\* One step of a worker that has nothing to install, or of a reader thread.
WorkersAndReaders ==
    \E g \in Gens :
        \/ WorkerExit(g)
        \/ WorkerListening(g, "stdout")
        \/ \E s \in Streams :
            \/ LogStreamLine(g, s)
            \/ LogStreamEnd(g, s)

\* One thread calls, and starting a reader thread may fail.
NextThreadFails ==
    \/ Call({"t1"}, {"get"}, MaxStartThreadFails)
    \/ \E t \in {"t1"} : StartThreadFails(t)
    \/ WorkersAndReaders

SpecThreadFails == Init /\ [][NextThreadFails]_vars

\* The same, scheduled fairly.
SpecThreadFailsFair ==
    SpecThreadFails /\ FairStartWait /\ FairReaders /\ FairWorkers

\* Two threads call Start and read variables at once and never call Stop;
\* starting a reader thread may fail, and Start's handler then runs Stop.
NextStartOps ==
    \/ \E t \in Threads :
        \/ CallStart(t, MaxStartOps)
        \/ StartLocateFails(t)
        \/ StartPopenFails(t)
        \/ StartAssignJobFails(t)
        \/ StartSpawn(t)
        \/ StartStdoutThread(t)
        \/ StartStderrThread(t)
        \/ StartThreadFails(t)
        \/ StartReady(t)
        \/ StartWaitTimeout(t)
        \/ StartCheckInstalling(t)
        \/ CallOp(t, "get", MaxStartOps)
        \/ PollFails(t)
        \/ PollWorkerProcess(t)
        \/ OpSend(t)
        \/ StopPost(t)
        \/ StopWait(t)
        \/ StopWaitFails(t)
        \/ StopKill(t)
        \/ StopKillFails(t)
        \/ StopClear(t)
    \/ WorkersAndReaders

SpecStartOps == Init /\ [][NextStartOps]_vars

\* One thread calls one of the keyed operations with every key of Keys.
NextKeys ==
    \/ \E t \in {"t1"} :
        \/ KeyRejected(t)
        \/ KeyAccepted(t)
        \/ StartLocateFails(t)
        \/ StartPopenFails(t)
        \/ StartAssignJobFails(t)
        \/ StartSpawn(t)
        \/ StartStdoutThread(t)
        \/ StartStderrThread(t)
        \/ StartReady(t)
        \/ StartWaitTimeout(t)
        \/ StartCheckInstalling(t)
        \/ PollFails(t)
        \/ PollWorkerProcess(t)
        \/ KeyParams(t)
        \/ KeySend(t)
    \/ WorkersAndReaders

SpecKeys == InitKeys /\ [][NextKeys]_vars

\* One thread reads variables, which starts the worker lazily; scheduled
\* fairly.
NextLazy == Call({"t1"}, {"get"}, MaxStart) \/ WorkersAndReaders

SpecLazyFair ==
    Init /\ [][NextLazy]_vars /\ FairStartWait /\ FairReaders /\ FairWorkers

\* One thread uses the Session in a "with" statement: it calls Start, Stop
\* and get in the block, which ends normally or by an exception.
NextWith ==
    \/ Enter
    \/ (output.kind = "block" /\ Call({"t1"}, {"get"}, MaxStart))
    \/ \E exc \in {"none"} \cup BlockExceptions : Exit("t1", exc)
    \/ ExitStop("t1")
    \/ ExitReturns("t1")
    \/ WorkersAndReaders

SpecWith == Init /\ [][NextWith]_vars

\* __exit__ runs to its end: every step of its Stop returns within its
\* timeout (lines 624-627 and 634).
SpecWithFair ==
    SpecWith /\ WF_vars(ExitStop("t1")) /\ WF_vars(ExitReturns("t1"))

\* Rscript is located on every machine of LocateInputs.
NextLocate == LocateRscript

SpecLocate == InitLocate /\ [][NextLocate]_vars

\* One _LogStream thread reads every stream of LogStreamInputs.
NextLogStream ==
    \/ LogStreamStart
    \/ LogStreamReadLine
    \/ LogStreamEndOfStream
    \/ LogStreamReadRaises
    \/ LogStreamDecodeRaises
    \/ LogStreamLogRaises

SpecLogStream == InitLogStream /\ [][NextLogStream]_vars

\* _ProcessResponse applied to every response of ResponseInputs.
NextResponse == ApplyProcessResponse

SpecResponse == InitResponse /\ [][NextResponse]_vars

\* One request of each operation through the session's adapter.
NextRequest ==
    \/ SessionRequest
    \/ ConnectFails
    \/ \E status \in Statuses : ConnectAnswered(status)

SpecRequest == InitRequest /\ [][NextRequest]_vars

\* Encoding then decoding every value of PyValues.
NextRoundTrip == ApplyRoundTrip

SpecRoundTrip == InitRoundTrip /\ [][NextRoundTrip]_vars

\* Serializing every value of SetValues for a Set.
NextSerialize == ApplySerialize

SpecSerialize == InitSerialize /\ [][NextSerialize]_vars

\* Setting and getting back every datetime of DatetimeInputs.
NextDateTime == SetThenGetDateTime

SpecDateTime == InitDateTime /\ [][NextDateTime]_vars

\* One or two Sets of the variable x, then a Get of it.
NextSetGet == SetItem \/ GetItem

SpecSetGet == InitSetGet /\ [][NextSetGet]_vars

\* Decoding every document of JDocuments.
NextDecode == ApplyDecode

SpecDecode == InitDecode /\ [][NextDecode]_vars

(***************************************************************************)
(* The claims of the specification, C1 to C10.                             *)
(***************************************************************************)
Idle(t) == pc[t] = "idle"

\* Thread t enters Start in this step: by calling Start, or by calling an
\* operation, which calls Start first.
EntersStart(t) ==
    /\ Idle(t)
    /\ \/ pc'[t] \in {"start_spawn", "op_poll"}
       \/ done'.op = "Start" /\ done' # done /\ pc' = pc

\* Thread t ends its liveness check in this step.
LeavesPoll(t) == pc[t] = "op_poll" /\ pc'[t] # "op_poll"

\* C1: Start returns normally only if the readiness line of the worker the
\* Session now holds has been observed: on a first Start, on a restart after
\* Stop, on a Start after a Start that timed out, on a Start concurrent with
\* another.
StartReturnsOnlyWhenReady ==
    done.op = "Start" /\ done.res = "ok" => done.ready

\* C2: no list/get/set/delete/eval request is sent while the Session is
\* Starting, that is while it holds a worker whose readiness line has not
\* been observed, whatever the interleaving of the threads.
NoRequestWhileStarting ==
    done.req # "none" => ~done.starting

\* C3: when the held worker has exited, the operation that comes next, of any
\* kind, raises ProcessExited and sends no HTTP request.  (ProcessExited is
\* what the liveness poll raises when it finds the child dead; the poll
\* failing itself is another case.)
ExitedWorkerRaisesProcessExited ==
    [][\A t \in Threads :
          /\ LeavesPoll(t)
          /\ WorkerProcess # None
          /\ phase[WorkerProcess] = "exited"
          /\ done'.poll # "failed"
          => /\ Idle(t)'
             /\ done'.op \in OpKinds
             /\ done'.res = "ProcessExited"
             /\ done'.req = "none"]_vars

ProcessExitedRaisedWhenReady ==
    /\ done.op \in OpKinds
    /\ done.res = "ProcessExited"
    /\ done.req = "none"
    /\ done.ready

StopAlwaysClears ==
    done.op = "Stop"
    => /\ done.res = "ok"
       /\ WorkerProcess = None
       /\ Session = None
       /\ openSessions = {}

StopClearedAfterRejectionAndFailedKill ==
    /\ done.op = "Stop"
    /\ done.log = <<"post_rejected", "wait_timeout", "kill_failed">>
    /\ WorkerProcess = None
    /\ \E g \in Gens : Running(g)

\* What a Stop may have gone through so far, in order.
StopOrder(l) ==
    /\ Len(l) <= 3
    /\ Len(l) >= 1 => l[1] \in {"post_accepted", "post_rejected", "post_failed"}
    /\ Len(l) >= 2 => l[2] \in {"exited", "wait_timeout", "wait_failed"}
    /\ Len(l) >= 3 => /\ l[3] \in {"killed", "kill_failed"}
                      /\ l[2] \in {"wait_timeout", "wait_failed"}

\* C6: Stop first posts the shutdown request, then waits for the child, and
\* kills it only if the wait timed out or failed; a child that exits within
\* the wait is never killed.
StopPostsWaitsThenKills ==
    /\ \A t \in Threads :
        /\ StopOrder(cur[t].log)
        /\ pc[t] = "stop_post" => Len(cur[t].log) = 0
        /\ pc[t] = "stop_wait" => Len(cur[t].log) = 1
        /\ pc[t] = "stop_kill" => Len(cur[t].log) = 2
        /\ pc[t] = "stop_clear" => Len(cur[t].log) \in {2, 3}
    /\ StopOrder(done.log)
    /\ done.op = "Stop" /\ done.held
        => /\ Len(done.log) >= 2
           /\ (done.log[2] = "exited") = (Len(done.log) = 2)

StopKilledAfterTimeout ==
    /\ done.op = "Stop"
    /\ done.log = <<"post_accepted", "wait_timeout", "killed">>

\* C7: Stop on a Session that holds no process (never started, or already
\* stopped) sends no shutdown request, raises nothing and leaves the Session
\* Idle.
StopWithoutProcessIsNoOp ==
    /\ \A t \in Threads : cur[t].op = "Stop" => cur[t].held
    /\ done.op = "Stop" /\ ~done.held
        => /\ done.res = "ok"
           /\ done.log = <<>>
           /\ WorkerProcess = None
           /\ Session = None

StopAfterStop ==
    /\ done.op = "Stop"
    /\ ~done.held
    /\ nStart = 1
    /\ phase[1] = "exited"

\* C8: a Start entered while a process is held spawns nothing, opens no
\* transport, starts no reader, and leaves the process, the transport, the
\* port and the secret as they are.
StartWithProcessHeldIsNoOp ==
    [][\A t \in Threads :
          EntersStart(t) /\ WorkerProcess # None
          => UNCHANGED <<sessionVars, nStart, workerVars, reader, eventVars,
                         readySeen>>]_vars

StartReturnedAtOnce ==
    /\ done.op = "Start"
    /\ done.res = "ok"
    /\ done.held
    /\ done.spawned = None

\* C9: a Start that returned after spawning holds the worker it spawned, a
\* transport opened for it and readers started for it; and after any
\* sequence of Start and Stop calls the Session holds a process exactly when
\* the call that ended last was a Start that succeeded.
HeldIffLastStartSucceeded ==
    /\ done.op = "Start" /\ done.res = "ok" /\ done.spawned # None
        => /\ WorkerProcess = done.spawned
           /\ Session = done.spawned
           /\ \A s \in Streams : reader[done.spawned][s] # "none"
    /\ done.op \in {"Start", "Stop"}
        => ((WorkerProcess # None) = (done.op = "Start" /\ done.res = "ok"))

InstallingSignalRead ==
    /\ WorkerProcess # None
    /\ phase[WorkerProcess] = "installing"
    /\ \A s \in Streams : \A i \in 1 .. Len(pipe[WorkerProcess][s]) :
            pipe[WorkerProcess][s][i] # InstallingLine

\* C11: while the held worker has emitted the installing line (and a reader
\* has read it) and has neither emitted the readiness line nor exited, Start
\* does not raise StartupTimeout, whatever the interleaving of the two
\* readers, one of them ending early included.
NoTimeoutWhileWorkerInstalls ==
    [][\A t \in Threads :
          pc[t] = "start_timedout" /\ InstallingSignalRead
          => ~(Idle(t)' /\ done'.res = "StartupTimeout")]_vars

\* Thread t is in the spawning section of Start, in Stop, or in a mapping
\* operation or Eval (from its call of Start to its request).
InLockedSection(t) ==
    \/ pc[t] \in {"start_spawn", "start_stdout", "start_stderr"}
    \/ pc[t] \in {"stop_post", "stop_wait", "stop_kill", "stop_clear"}
    \/ pc[t] \in {"op_poll", "op_send"}
    \/ cur[t].op \in OpKinds

\* C12: one re-entrant lock serializes the operations and the Start/Stop
\* transitions: whatever the interleaving, at most one thread is in the
\* spawning section of Start, in Stop or in an operation, and that thread
\* owns the lock; so at most one HTTP request is in flight.
LockSerializes ==
    /\ \A t \in Threads : InLockedSection(t) => lockOwner = t
    /\ \A t, u \in Threads :
            InLockedSection(t) /\ InLockedSection(u) => t = u
    /\ (lockOwner = "none") = (lockDepth = 0)

RequestWhileOtherThreadWaits ==
    /\ pc["t1"] = "op_send"
    /\ lockOwner = "t1"
    /\ pc["t2"] = "start_wait"

\* C13: constructing a Session spawns no process and opens no transport; an
\* operation takes the lock, then calls Start (which spawns when no process
\* is held), then polls liveness, and only then sends its one request; when
\* Start or the poll raises, no request is sent.
OperationTakesLockStartsPollsThenSends ==
    /\ WorkerProcess = None /\ Session = None /\ openSessions = {}
    /\ \A g \in Gens : phase[g] = "none"
    /\ [][\A t \in Threads :
            /\ Idle(t) /\ ~Idle(t)' /\ cur'[t].op \in OpKinds
                => /\ lockOwner = "none" /\ lockOwner' = t
                   /\ (WorkerProcess = None) = (pc'[t] = "start_spawn")
                   /\ (WorkerProcess # None) = (pc'[t] = "op_poll")
            /\ pc[t] # "op_poll" /\ pc'[t] = "op_poll"
                => /\ lockOwner' = t
                   /\ WorkerProcess # None
                   /\ Idle(t) \/ (pc[t] = "start_wait" /\ WorkerProcessIsReady)
            /\ pc[t] # "op_send" /\ pc'[t] = "op_send"
                => pc[t] = "op_poll" /\ lockOwner = t
            /\ ~Idle(t) /\ Idle(t)' /\ done'.req # "none"
                => /\ pc[t] = "op_send" /\ lockOwner = t
                   /\ cur[t].poll = "running"
                   /\ done'.req = cur[t].op
            /\ ~Idle(t) /\ Idle(t)' /\ pc[t] # "op_send"
                    /\ cur[t].op \in OpKinds
                => done'.req = "none" /\ done'.res # "ok"]_vars

LazyStartThenRequest ==
    /\ done.op \in OpKinds
    /\ done.spawned # None
    /\ done.req = done.op
    /\ done.res = "ok"

\* C14: every list/get/set/delete/eval/shutdown request carries the stored
\* secret: sent to a listening worker, a request is rejected as Unauthorized
\* exactly when the stored secret differs from the one the worker was started
\* with; so every operation fails with Unauthorized after the stored secret
\* is changed, and is served again, by the same worker, once it is restored.
RequestsCarryStoredSecret ==
    [][\A t \in Threads :
          /\ pc[t] = "op_send" /\ Idle(t)' /\ Session # None
                /\ Listener(Port) # None
             => /\ (done'.res = "Unauthorized")
                    = (AuthenticationToken # args[Listener(Port)].token)
                /\ done'.req = cur[t].op
                /\ UNCHANGED <<sessionVars, nStart, workerVars>>
          /\ pc[t] = "stop_post" /\ pc'[t] = "stop_wait" /\ Session # None
                /\ Listener(Port) # None
             => (cur'[t].log = <<"post_rejected">>)
                = (AuthenticationToken # args[Listener(Port)].token)]_vars

UnauthorizedAfterSecretChanged ==
    /\ done.op \in OpKinds
    /\ done.res = "Unauthorized"
    /\ done.ready
    /\ AuthenticationToken = "foo"
    /\ args[WorkerProcess].token = "secret"

\* C15: an operation that fails with Unauthorized, WorkerError or
\* TransportError leaves the process handle, the transport, the port, the
\* secret and the readiness state as they were; the worker stays held, so
\* the call that follows is served by it, without a restart.
FailedCallLeavesSessionUnchanged ==
    [][\A t \in Threads :
          /\ pc[t] = "op_send" /\ Idle(t)'
          /\ done'.res \in {"Unauthorized", "WorkerError", "TransportError"}
          => /\ UNCHANGED <<sessionVars, eventVars, readySeen, nStart,
                            workerVars, reader>>
             /\ WorkerProcess # None /\ Session # None
             /\ lockOwner' = "none"]_vars

TransportErrorFromHeldWorker ==
    /\ done.op \in OpKinds
    /\ done.res = "TransportError"
    /\ done.ready
    /\ phase[WorkerProcess] = "listening"
    /\ Session # None

(***************************************************************************)
(* Response handling.  WorkerError is the RuntimeError 'From R: ...' of    *)
(* line 701; TransportError is the RuntimeError of line 708 that names the *)
(* status code.                                                            *)
(***************************************************************************)
Processed == output # NoOutput

HasMessageField(b) == b.t = "object" /\ "message" \in DOMAIN b.v

HasMessageString(b) == HasMessageField(b) /\ b.v["message"].t = "string"

ResponseHandledByStatusAndContentType ==
    Processed /\ ~(input.status = 500 /\ HasMessageString(input.body)) =>
        /\ input.status # 200 => output = Raised("HTTP status", input.status)
        /\ input.status = 200 /\ input.op \in {"set", "delete"} =>
               output = Returned("None", <<>>)
        /\ input.status = 200 /\ input.op \in {"list", "get", "eval"} =>
               /\ input.ctype = "application/json" =>
                      output = IF input.body \in {NotJSON, Feather}
                               THEN Raised("JSON parser", <<>>)
                               ELSE Returned("JSON", Decode(input.body))
               /\ input.ctype \in {"application/vnd.apache.arrow.file",
                                   "application/x-feather"} =>
                      output = IF input.body = Feather
                               THEN Returned("table", Feather)
                               ELSE Raised("feather parser", <<>>)
               /\ input.ctype \notin {NoContentType, "application/json",
                                      "application/vnd.apache.arrow.file",
                                      "application/x-feather"} =>
                      output = Raised("unknown Content-Type", input.ctype)

\* A Get answered 200 with a Content-Type that is neither JSON nor feather.
UnknownContentTypeRaised ==
    /\ Processed
    /\ input.op = "get"
    /\ input.status = 200
    /\ input.ctype = "text/html"
    /\ output = Raised("unknown Content-Type", "text/html")

(***************************************************************************)
(* Retries.                                                                *)
(***************************************************************************)
Attempts == IF output = NoOutput THEN 0 ELSE output.failed + output.answered

\* C18, as stated: each call makes at most one attempt to send its HTTP
\* request, and a connection failure on that attempt is surfaced to the
\* caller instead of being retried.
AtMostOneAttempt ==
    /\ Attempts <= 1
    /\ output # NoOutput /\ output.failed > 0 => output.kind = "raise"

\* C18, amended: a call is retried only after a failed connection, at most
\* RetryTotal times: every attempt but the last failed to connect, the
\* failure is surfaced once RetryTotal + 1 connections have failed, and any
\* HTTP response, whatever its status, ends the call without another
\* attempt.
RetriedOnlyOnConnectionFailure ==
    output # NoOutput =>
        /\ output.answered <= 1
        /\ output.failed <= RetryTotal + 1
        /\ output.answered = 1 <=> output.kind = "response"
        /\ output.kind = "raise" <=> output.failed = RetryTotal + 1
        /\ output.failed + output.total =
               IF output.kind = "raise" THEN RetryTotal + 1 ELSE RetryTotal

\* The request was answered on the attempt after the first failed to
\* connect.
AnsweredOnSecondAttempt ==
    /\ output # NoOutput
    /\ output.kind = "response"
    /\ output.failed = 1
    /\ output.answered = 1

(***************************************************************************)
(* The codec.                                                              *)
(***************************************************************************)
\* The value the round trip is to give back: the value itself, with every
\* list of a single Timestamp replaced by that Timestamp, innermost first.
RECURSIVE Unboxed(_)
Unboxed(x) ==
    CASE x.t = "list" ->
           LET e == [i \in DOMAIN x.v |-> Unboxed(x.v[i])]
           IN  IF Len(e) = 1 /\ e[1].t = "datetime" THEN e[1] ELSE PyList(e)
      [] x.t = "dict" -> PyDict([k \in DOMAIN x.v |-> Unboxed(x.v[k])])
      [] OTHER -> x

\* C19: for every scalar (bool, int, float, string, timestamp, null) and
\* every map or list composed of them, whatever the non-empty string keys
\* of the maps, decoding the encoded value gives a value equal to it, except
\* that a list of a single Timestamp comes back as the bare Timestamp.
RoundTripIsValueEqual ==
    Processed => output.value = Unboxed(input)

\* C20: decoding an array gives its sole element exactly when it has length
\* 1 and that element decodes to a Timestamp, and otherwise the list of its
\* decoded elements; decoding an object gives a Timestamp exactly when its
\* single key is "$date" and the value of that key is a number.
DecodeUnwrapsOnlyTimestampSingletons ==
    Processed =>
        /\ input.t = "array" =>
               LET d == [i \in DOMAIN input.v |-> Decode(input.v[i])]
               IN  output.value = IF Len(d) = 1 /\ d[1].t = "datetime"
                                  THEN d[1]
                                  ELSE PyList(d)
        /\ input.t = "object" =>
               (output.value.t = "datetime" <=>
                    /\ DOMAIN input.v = {"$date"}
                    /\ input.v["$date"].t \in {"integer", "real"})

\* The marker conditions as the claim words them.
IsOneTimestampList(x) ==
    x.t \in {"list", "tuple"} /\ Len(x.v) = 1 /\ x.v[1].t = "datetime"

IsTimestampMap(x) ==
    x.t = "dict" /\ \A k \in DOMAIN x.v :
        x.v[k].t = "datetime" \/ IsOneTimestampList(x.v[k])

InAtomicMarker(x) ==
    PyDict(("value" :> x) @@ (AtomicMarker :> PyBool(TRUE)))

\* C21, as stated: the value sent is wrapped in the marker object
\* {"value": v, <atomic-marker>: true} exactly when it is a bare Timestamp,
\* a one-element list or tuple of Timestamp, or a map all of whose values
\* are Timestamps or one-element Timestamp lists; otherwise it is sent
\* without a marker.
MarkerObjectWrapsTimestampShapes ==
    Processed =>
        output.value =
            Encode(PyDict("value" :>
                IF \/ input.t = "datetime"
                   \/ IsOneTimestampList(input)
                   \/ IsTimestampMap(input)
                THEN InAtomicMarker(input)
                ELSE input))

\* C21, amended: the value sent is wrapped in the marker object
\* {"value": v, <atomic-marker>: true} exactly when it is a bare Timestamp
\* or a one-element list or tuple of Timestamp; a map all of whose values
\* are Timestamps or one-element Timestamp lists (the empty map included)
\* is not wrapped but sent with the extra key RWorkerProcess_IsDatetimeList
\* set to true; every other value is sent without a marker.
MarkerObjectOrMarkerKey ==
    Processed =>
        output.value =
            Encode(PyDict("value" :>
                IF input.t = "datetime" \/ IsOneTimestampList(input)
                THEN InAtomicMarker(input)
                ELSE IF IsTimestampMap(input)
                THEN PyDict((DatetimeListMarker :> PyBool(TRUE)) @@ input.v)
                ELSE input))

\* A one-element list of a Timestamp was sent inside the marker object.
OneTimestampListWrapped ==
    /\ Processed
    /\ input = PyList(<<PyDatetime(1000000)>>)
    /\ output.value.v["value"].t = "object"
    /\ AtomicMarker \in DOMAIN output.value.v["value"].v

\* C22: a timestamp set and read back is the same instant, to the
\* millisecond, in the Session's default zone: the instant of a naive
\* timestamp is its reading taken in the default zone, that of an aware
\* timestamp is its own, and the value read back is aware, in the default
\* zone.
TimestampReadBackInDefaultZone ==
    Processed =>
        /\ output.kind = "return"
        /\ output.value.tzinfo = input.defaultTZ
        /\ Timestamp(output.value) =
               IF input.obj.tzinfo = NoTZ
               THEN input.obj.wall - UTCOffset(input.defaultTZ)
               ELSE input.obj.wall - UTCOffset(input.obj.tzinfo)

\* The value last set when x was read
LastSet == IF output.sets = 1 THEN input.first ELSE input.second

\* C23: after Set("x", v), Get("x") returns a value equal to v for every
\* JSON-compatible v, except that a list of length 1 is returned as its
\* sole element; after a second Set it is the second value that is
\* returned.
GetReturnsValueLastSet ==
    output.kind = "return" =>
        output.value =
            IF LastSet.t = "list" /\ Len(LastSet.v) = 1
            THEN LastSet.v[1]
            ELSE LastSet

\* C24: when the Session is configured with a port on which another
\* Session's worker listens, then, as long as that worker is running, every
\* Start of the Session ends by raising, and no request of the Session is
\* served by that worker.
StartOnTakenPortRaises ==
    /\ (done.op = "Start" /\ phase[OtherWorker] = "listening"
            => done.res # "ok")
    /\ (done.req # "none" /\ Listener(Port) = OtherWorker
            => done.res \notin {"ok", "WorkerError"})

WithBlockStopsSession ==
    /\ [](output.kind = "left"
            => /\ WorkerProcess = None
               /\ Session = None
               /\ openSessions = {}
               /\ output.propagated = output.exc
               /\ nStart = output.spawned)
    /\ (output.kind = "exit" ~> output.kind = "left")

\* A block that ended by the startup timeout of its Start, with the worker
\* still held, has been left: the worker was killed and the exception let
\* through.
LeftBlockAfterTimeout ==
    /\ output.kind = "left"
    /\ output.exc = "StartupTimeout"
    /\ output.propagated = "StartupTimeout"
    /\ done.op = "Stop"
    /\ done.held
    /\ WorkerProcess = None
    /\ phase[1] = "exited"

\* The sources of the executable in the order of the specification, whether
\* the machine gives each of them, and whether it yields the executable.
Sources == <<"rInstallDir", "R_HOME", "registry", "PATH">>

Present(i) ==
    CASE i = 1 -> input.rInstallDir # "None"
      [] i = 2 -> input.R_HOME \in {"exe", "no exe"}
      [] i = 3 -> \E h \in 1 .. 2 : input[Hives[h]] \in {"exe", "no exe"}
      [] i = 4 -> input.PATH

Yields(i) ==
    CASE i = 1 -> input.rInstallDir = "exe"
      [] i = 2 -> input.R_HOME = "exe"
      [] i = 3 -> RegistryProbe(input) # "none"
      [] i = 4 -> input.PATH

UsedSource ==
    IF output.kind # "return" THEN 0
    ELSE IF output.value \in {Hives[1], Hives[2]} THEN 3
    ELSE CHOOSE i \in 1 .. 4 : Sources[i] = output.value

Resolved == Processed /\ input.libsodium /\ input.platform \in {"win32", "linux"}

LinesRead == SubSeq(input.lines, 1, output.n)

IsSignal(line) ==
    /\ Decodable(line)
    /\ StartsWith(RStrip(line), ReadyLine)
            \/ StartsWith(RStrip(line), InstallingLine)

IsSwagger(line) == Decodable(line) /\ StartsWith(RStrip(line), SwaggerLine)

Signals == Cardinality({i \in 1 .. Len(LinesRead) : IsSignal(LinesRead[i])})

Swaggers == Cardinality({i \in 1 .. Len(LinesRead) : IsSwagger(LinesRead[i])})

\* C28 as stated: every line read is a signal line or has been handed to
\* the logger.
NoLineDropped ==
    Processed => Len(output.log) + Signals = output.n

\* C28: every line read is a signal line, or has been handed to the logger,
\* or is a swagger announcement (discarded), or is the line on which decode
\* or the logger raised (the loop ended there).
NoLineDroppedButSwaggerAndFailed ==
    Processed
    => Len(output.log) + Signals + Swaggers
            + (IF output.raised \in {"decode", "log"} THEN 1 ELSE 0)
       = output.n

\* The reader met a swagger announcement, then a line of text, then the end
\* of the stream: one record logged for two lines read.
SwaggerDiscardedTextLogged ==
    /\ Processed
    /\ output.kind = "exited"
    /\ output.raised = "none"
    /\ input.lines = << <<SwaggerLine, Text>>, <<Text>> >>
    /\ output.log = <<[level |-> Level(input.stream), msg |-> <<Text>>]>>

\* A step of the loop that reads a line and raises nothing, and the line as
\* decoded and stripped.
ReadsLine ==
    /\ output.kind = "reading"
    /\ output'.kind = "reading"
    /\ output'.n = output.n + 1

LineRead == RStrip(input.lines[output.n + 1])

SetsReadyClearsInstalling ==
    /\ WorkerProcessIsReady'
    /\ ~WorkerProcessIsInstallingRPackages'
    /\ output'.log = output.log

SetsInstalling ==
    /\ WorkerProcessIsInstallingRPackages'
    /\ UNCHANGED WorkerProcessIsReady
    /\ output'.log = output.log

Logs(level, msg) ==
    /\ output'.log = Append(output.log, [level |-> level, msg |-> msg])
    /\ UNCHANGED eventVars

StreamLevel == IF input.stream = "stdout" THEN "INFO" ELSE "WARNING"

\* C29 as stated: a readiness line sets the readiness flag and clears the
\* installing flag, an installing line sets the installing flag, a line with
\* the debug prefix is logged at debug level without the prefix, and any
\* other line is logged at the level of its stream.
ClassifiedAsStated ==
    [][ReadsLine =>
        IF StartsWith(LineRead, ReadyLine) THEN SetsReadyClearsInstalling
        ELSE IF StartsWith(LineRead, InstallingLine) THEN SetsInstalling
        ELSE IF StartsWith(LineRead, DebugPrefix)
        THEN Logs("DEBUG", Tail(LineRead))
        ELSE Logs(StreamLevel, LineRead)]_vars

\* C29: a readiness line sets the readiness flag and clears the installing
\* flag, an installing line sets the installing flag, a swagger announcement
\* is discarded, a line with the debug prefix is logged at debug level with
\* "R:" in place of the prefix, and any other line is logged, its trailing
\* white space removed, at informational level from standard output and at
\* warning level from standard error; on either stream.
ClassifiedWithSwaggerDiscarded ==
    [][ReadsLine =>
        IF StartsWith(LineRead, ReadyLine) THEN SetsReadyClearsInstalling
        ELSE IF StartsWith(LineRead, InstallingLine) THEN SetsInstalling
        ELSE IF StartsWith(LineRead, SwaggerLine)
        THEN UNCHANGED eventVars /\ output'.log = output.log
        ELSE IF StartsWith(LineRead, DebugPrefix)
        THEN Logs("DEBUG", <<"R:">> \o Tail(LineRead))
        ELSE Logs(StreamLevel, LineRead)]_vars

\* The reader of standard error has seen the installing line and logged a
\* line of text as a warning.
InstallingSeenOnStderrThenWarning ==
    /\ Processed
    /\ input.stream = "stderr"
    /\ input.lines = << <<InstallingLine>>, <<Text, WhiteSpace>> >>
    /\ output.kind = "reading"
    /\ WorkerProcessIsInstallingRPackages
    /\ output.log = <<[level |-> "WARNING", msg |-> <<Text>>]>>

\* The records the loop hands to the logger for a sequence of lines.
RECURSIVE Forwarded(_, _)
Forwarded(lines, level) ==
    IF lines = <<>> THEN <<>>
    ELSE Classify(RStrip(Head(lines)), level).log \o Forwarded(Tail(lines), level)

IsPrefix(a, b) == Len(a) <= Len(b) /\ a = SubSeq(b, 1, Len(a))

\* C30: the loop ends in one way only, at the end of the stream or at an
\* exception: the stream closed, the installing flag clear, nothing read
\* afterwards; what it has handed to the logger is, in the order read, what
\* the lines before the end gave, and no step takes a record back.
ReaderEndsAtItsBoundary ==
    /\ [](Processed
            => /\ output.log =
                    Forwarded(SubSeq(input.lines, 1,
                                     IF output.raised \in {"decode", "log"}
                                     THEN output.n - 1 ELSE output.n),
                              StreamLevel)
               /\ output.kind = "exited"
                    => /\ output.closed
                       /\ ~WorkerProcessIsInstallingRPackages
               /\ output.kind = "reading"
                    => ~output.closed /\ output.raised = "none")
    /\ [][Processed
            => /\ IsPrefix(output.log, output'.log)
               /\ output.kind # "exited"
               /\ output'.kind = "exited" => output'.log = output.log]_vars

\* The reader had logged a line of text when decode raised on the second
\* line: the loop ended, the stream is closed and the record is still
\* there.
ReaderEndedByDecodeError ==
    /\ Processed
    /\ output.kind = "exited"
    /\ output.raised = "decode"
    /\ output.n = 2
    /\ input.lines = << <<Text>>, <<UndecodableLine>> >>
    /\ output.log = <<[level |-> StreamLevel, msg |-> <<Text>>]>>
    /\ output.closed

\* C31: the secret is the one of the constructor in every state and no step
\* changes it; every worker spawned was given that secret, so no request is
\* answered Unauthorized; and the port of the Session, which every request
\* URL uses, is the port given to the worker held.
SecretGeneratedOncePortOfHeldWorker ==
    /\ [](/\ AuthenticationToken = "secret"
          /\ \A g \in Gens : phase[g] # "none"
                => args[g].token = AuthenticationToken
          /\ WorkerProcess # None => args[WorkerProcess].port = Port
          /\ done.req # "none" => done.res # "Unauthorized")
    /\ [][AuthenticationToken' = AuthenticationToken]_vars

\* After a Stop and a second Start, a request to the second worker has been
\* answered.
SecondWorkerAnswersRequest ==
    /\ nStart = 2
    /\ WorkerProcess = 2
    /\ phase[1] = "exited"
    /\ args[1].port # args[2].port
    /\ args[2] = [port |-> Port, token |-> AuthenticationToken]
    /\ done.req = "get"
    /\ done.res = "ok"

\* C32: an operation whose poll of the held worker itself failed does not
\* raise for that and goes on to send its request.
FailedPollAssumesRunning ==
    done.poll = "failed" => done.res # "NameError" /\ done.req # "none"

\* C33: while Start waits for readiness, both reader threads of the worker
\* it spawned have been started; and no signal line is lost: the readiness
\* line of a listening worker is still in the pipe or a reader has seen it,
\* and a reader that has ended has left nothing unread.
ReadersStartedBeforeWait ==
    /\ \A t \in Threads :
        pc[t] \in {"start_wait", "start_timedout"}
        => /\ cur[t].spawned # None
           /\ \A s \in Streams : reader[cur[t].spawned][s] # "none"
    /\ \A g \in Gens :
        /\ phase[g] = "listening"
            => \/ g \in readySeen
               \/ \E i \in 1 .. Len(pipe[g]["stdout"]) :
                    pipe[g]["stdout"][i] = ReadyLine
        /\ \A s \in Streams : reader[g][s] = "done" => pipe[g][s] = <<>>

\* The worker announced readiness before the stderr reader was started; the
\* stdout reader has already seen the line.
ReadySeenBeforeWaitBegins ==
    /\ pc["t1"] = "start_stderr"
    /\ WorkerProcess \in readySeen
    /\ WorkerProcessIsReady
    /\ reader[WorkerProcess]["stderr"] = "none"

\* C34: whenever no call is in progress on any thread, the Session holds a
\* process handle if and only if it holds a transport.
HandleIffTransport ==
    (\A t \in Threads : Idle(t)) => ((WorkerProcess # None) <=> (Session # None))

\* C35: a Start that raised, whatever the failure, has left the Session with
\* no process handle and no transport.
RaisedStartLeavesIdle ==
    (done.op = "Start" /\ done.res # "ok" /\ \A t \in Threads : Idle(t))
    => WorkerProcess = None /\ Session = None

\* A reader of worker g takes a step: it consumes a line or ends.
ReaderStepOf(g) ==
    \E s \in Streams :
        /\ reader[g][s] = "running"
        /\ \/ reader'[g][s] = "done"
           \/ Len(pipe'[g][s]) < Len(pipe[g][s])

\* C36: once a later worker is held by the Session, no step of a reader
\* loop of an earlier worker (a late line or a late end of stream) changes
\* the readiness flag or the installing flag.
OldReadersLeaveFlagsAlone ==
    [][\A g \in Gens :
        (WorkerProcess # None /\ g < WorkerProcess /\ ReaderStepOf(g))
        => UNCHANGED eventVars]_vars

InReadinessWait(t) == pc[t] \in {"start_wait", "start_timedout"}

\* The worker that t spawned has exited without announcing that it listens.
ExitedBeforeReadiness(t) ==
    /\ InReadinessWait(t)
    /\ cur[t].spawned # None
    /\ phase[cur[t].spawned] = "exited"
    /\ cur[t].spawned \notin readySeen
    /\ \A i \in 1 .. Len(pipe[cur[t].spawned]["stdout"]) :
        pipe[cur[t].spawned]["stdout"][i] # ReadyLine

\* C37: a Start in its readiness wait eventually leaves it; every reader of
\* a worker that has exited reaches its end of stream; and when the worker
\* that Start spawned has exited without the readiness line, the call ends
\* with the startup-timeout error, the installing flag being clear.
StartWaitEnds ==
    /\ InReadinessWait("t1") ~> ~InReadinessWait("t1")
    /\ \A g \in Gens, s \in Streams :
        (phase[g] = "exited" /\ reader[g][s] = "running")
        ~> reader[g][s] = "done"
    /\ ExitedBeforeReadiness("t1")
        ~> (/\ Idle("t1")
            /\ done.res = "StartupTimeout"
            /\ ~WorkerProcessIsInstallingRPackages)

\* C38: no step of a reader changes the Session lock, and a reader with a
\* line to read can read it whoever holds the lock; so when a thread holds
\* the lock in the readiness wait of its lazy Start and the worker it
\* spawned listens, the readiness flag gets set, and the wait ends.
ReadersNeedNoLock ==
    /\ [][\A g \in Gens : ReaderStepOf(g) => UNCHANGED lockVars]_vars
    /\ [](\A g \in Gens, s \in Streams :
            (reader[g][s] = "running" /\ pipe[g][s] # <<>>)
            => ENABLED LogStreamLine(g, s))
    /\ (/\ InReadinessWait("t1")
        /\ lockOwner = "t1"
        /\ cur["t1"].spawned # None
        /\ phase[cur["t1"].spawned] = "listening") ~> WorkerProcessIsReady
    /\ (InReadinessWait("t1") /\ lockOwner = "t1") ~> ~InReadinessWait("t1")

\* A mapping operation holds the lock in the readiness wait of its lazy
\* Start, and a reader has set the readiness flag for the worker spawned.
ReadinessSetWhileLockHeld ==
    /\ pc["t1"] = "start_wait"
    /\ cur["t1"].op \notin {"Start", "Stop"}
    /\ lockOwner = "t1"
    /\ cur["t1"].spawned \in readySeen
    /\ WorkerProcessIsReady

\* The workers spawned so far.
Spawned == {g \in Gens : phase[g] # "none"}

\* The workers both of whose reader threads Start started.
FullyStarted == {g \in Spawned : \A s \in Streams : reader[g][s] # "none"}

BlankOrNoStr(key) ==
    key.t # "str" \/ \A i \in 1 .. Len(key.v) : key.v[i] = WhiteSpace

\* name is what is left of line without the whitespace around it.
IsTrimmed(name, line) ==
    /\ name # <<>>
    /\ name[1] # WhiteSpace
    /\ name[Len(name)] # WhiteSpace
    /\ \E i \in 0 .. Len(line) :
        /\ i + Len(name) <= Len(line)
        /\ SubSeq(line, i + 1, i + Len(name)) = name
        /\ \A j \in 1 .. Len(line) :
            (j <= i \/ j > i + Len(name)) => line[j] = WhiteSpace

\* C40: with a key that is no str or blank, the operation raises ValueError
\* and nothing else ever happens: the lock is not taken, no Start is
\* attempted, no worker is spawned, no request is sent and the Session is
\* as it was constructed; ValueError is raised for no other key; and the
\* name sent with a request is the key without its surrounding whitespace.
KeyCheckedBeforeLock ==
    /\ BlankOrNoStr(input.key)
        => /\ output.kind \in {"none", "raise"}
           /\ nStart = 0 /\ WorkerProcess = None /\ Session = None
           /\ openSessions = {} /\ Port = None
           /\ lockOwner = "none" /\ lockDepth = 0
           /\ \A t \in Threads : Idle(t)
           /\ done = NoCall
           /\ Spawned = {}
    /\ output.kind = "raise"
        => BlankOrNoStr(input.key) /\ output.what = "ValueError"
    /\ (done.req # "none" \/ output.kind = "params")
        => /\ output.kind = "params"
           /\ done.req \in {"none", input.op}
           /\ IsTrimmed(output.name, input.key.v)

\* A get with the key " x " was answered; the name sent was "x".
PaddedKeySentStripped ==
    /\ input.op = "get"
    /\ input.key = [t |-> "str", v |-> <<WhiteSpace, Text, WhiteSpace>>]
    /\ done.req = "get"
    /\ done.res = "ok"
    /\ output = [kind |-> "params", name |-> <<Text>>]

\* A set with a key of nothing but whitespace raised ValueError.
BlankKeyRaised ==
    /\ input.op = "set"
    /\ input.key = [t |-> "str", v |-> <<WhiteSpace, WhiteSpace>>]
    /\ output.kind = "raise"

====
